---- MODULE Spec2Model ----
(***************************************************************************)
(* Model of cedar-team/model-settings-manager.                             *)
(*                                                                         *)
(*  - the ownership resolver  generateTeamMappingFromYaml                  *)
(*    (README.md lines 206-400), under SpecResolver;                       *)
(*  - the usage classifier: the two warehouse queries, getAllModelSettings *)
(*    and the /api/model-settings routes (server/index.ts), under          *)
(*    SpecClassifier;                                                      *)
(*  - the resolver run again on the same inputs (SpecRerun), its two       *)
(*    indexes (SpecIndexes) and its counts (SpecCounts);                   *)
(*  - one call of executeSnowflakeQuery (SpecQuery) and the conversion of  *)
(*    its rows (SpecConvert);                                              *)
(*  - the server process and its routes (SpecServer, SpecEndpoints);       *)
(*  - the browser: the Index page, apiService and cacheService (SpecPage,  *)
(*    and SpecPageLive where every awaited request settles).               *)
(*                                                                         *)
(* Strings that the code takes apart (paths, setting names taken from file *)
(* names) are sequences of tokens; the separator "/" and the extension     *)
(* ".py" are tokens of their own, so that startsWith, endsWith, includes,  *)
(* replace, slice, dirname and basename are computed on the text.          *)
(***************************************************************************)
EXTENDS Integers, Sequences, FiniteSets, TLC

VARIABLES
  manifest,         \* CODE_OWNERSHIP.yml flattened: sequence of [team, path]
  yamlReadable,     \* CODE_OWNERSHIP.yml exists, can be read and parses
  settingFiles,     \* output of find: sequence of [filePath, content]
  pathToTeam,       \* the Map built from the manifest (insertion ordered), and
  directoryToTeam,  \* the Map built from the __init__.py markers, of the last run that returned
  resolved,         \* per file it processed: [relativePath, settingName, owningTeam]
  result,           \* <<return value of generateTeamMappingFromYaml>>, <<>> before the run
  thrown,           \* <<error thrown by the last generateTeamMappingFromYaml>>, <<>> if none
  now,              \* the clock as new Date() reads it: one tick per generated summary
  teamMappingJson,  \* the file server/team-mapping.json: [status, json]
  ms,               \* table django_model_settings_modelsetting
  msv,              \* table django_model_settings_modelsettingvalue
  teamMapping,      \* the server's in-memory team mapping
  allSettings,      \* <<allSettings of the last getAllModelSettings>>, <<>> when none
  unusedSettings,   \* <<unusedSettings of the last getAllModelSettings>>, <<>> when none
  settled,          \* how the two query promises of the last request settled
  response,         \* <<the HTTP response of the last request>>, <<>> when none
  stdout,           \* executeSnowflakeQuery: the lines the CLI has printed so far
  child,            \* the CLI subprocess: [state, code, signalled, errored]
  timer,            \* the 60 s timer: "armed", "fired" or "cleared"
  elapsed,          \* milliseconds since the timer was set
  promise,          \* <<how the query promise settled>>, <<>> while pending
  settleCalls,      \* number of resolve/reject calls made on the query promise
  serving,          \* the server module has been loaded and app.listen called
  loads,            \* the mappings that loadTeamMapping has read successfully
  inflight,         \* model-settings requests awaiting their queries: set of [id, route]
  nextId,           \* number of requests received so far
  answered,         \* id of the request that response answers, 0 when none
  jsonData,         \* executeSnowflakeQuery: the array JSON.parse returned
  results,          \* <<the rows the query resolves with>>, <<>> before the conversion
  mounted,          \* browser: the Index component has mounted (its effects have run)
  page,             \* browser: the React state of the Index component
  cache,            \* browser: cacheService's entry for MODEL_SETTINGS, <<>> when none
  dateNow,          \* browser: Date.now(), in milliseconds since the page was opened
  requests,         \* browser: the endpoints requested so far, in order of issue
  pending,          \* browser: the requests awaiting their response: [ticket, caller]
  refreshed         \* browser: ticket of the latest refresh call that resolved, 0 if none

vars == <<manifest, yamlReadable, settingFiles, pathToTeam, directoryToTeam, resolved,
          result, thrown, now, teamMappingJson, ms, msv, teamMapping, allSettings,
          unusedSettings, settled, response, stdout, child, timer, elapsed,
          promise, settleCalls, serving, loads, inflight, nextId, answered,
          jsonData, results, mounted, page, cache, dateNow, requests, pending, refreshed>>

resolverVars == <<manifest, yamlReadable, settingFiles, pathToTeam, directoryToTeam,
                  resolved, result, thrown, now, teamMappingJson>>

classifierVars == <<ms, msv, teamMapping, allSettings, unusedSettings, settled, response>>

queryVars == <<stdout, child, timer, elapsed, promise, settleCalls>>

serverVars == <<serving, loads, inflight, nextId, answered>>

convertVars == <<jsonData, results>>

browserVars == <<mounted, page, cache, dateNow, requests, pending, refreshed>>

(***************************************************************************)
(* Bounds of the model.                                                    *)
(***************************************************************************)
MaxEntries == 2     \* manifest entries
MaxFiles == 2       \* candidate setting files
MaxSettingRows == 2 \* rows of the model-setting table
MaxValueRows == 2   \* rows of the model-setting-value table
MaxRuns == 2        \* runs of the resolver
MaxLines == 3       \* lines the CLI prints
TickMs == 30000     \* granularity of the passing of time
MaxRequests == 2    \* requests the server receives

(***************************************************************************)
(* Text helpers on token sequences (JavaScript String methods).            *)
(***************************************************************************)
SEP == <<"/">>

StartsWith(s, p) == Len(p) <= Len(s) /\ SubSeq(s, 1, Len(p)) = p

EndsWith(s, p) == Len(p) <= Len(s) /\ SubSeq(s, Len(s) - Len(p) + 1, Len(s)) = p

Occurrences(s, p) == {i \in 1..(Len(s) - Len(p) + 1) : SubSeq(s, i, i + Len(p) - 1) = p}

Includes(s, p) == Occurrences(s, p) # {}

MinOf(S) == CHOOSE x \in S : \A y \in S : x <= y

MaxOf(S) == CHOOSE x \in S : \A y \in S : x >= y

\* String.prototype.replace with a string pattern: the first occurrence only.
ReplaceFirst(s, p, r) ==
  IF ~Includes(s, p) THEN s
  ELSE LET i == MinOf(Occurrences(s, p))
       IN SubSeq(s, 1, i - 1) \o r \o SubSeq(s, i + Len(p), Len(s))

\* path.slice(0, -1)
DropLast(s) == SubSeq(s, 1, Len(s) - 1)

\* path.dirname on a path without trailing separator
Dirname(p) ==
  LET seps == {i \in 1..Len(p) : p[i] = "/"}
  IN IF seps = {} THEN <<".">>
     ELSE IF MaxOf(seps) = 1 THEN SEP
     ELSE SubSeq(p, 1, MaxOf(seps) - 1)

\* path.basename(p, ext): the last segment, without ext when it ends in ext
Basename(p, ext) ==
  LET seps == {i \in 1..Len(p) : p[i] = "/"}
      base == IF seps = {} THEN p ELSE SubSeq(p, MaxOf(seps) + 1, Len(p))
  IN IF EndsWith(base, ext) /\ base # ext THEN SubSeq(base, 1, Len(base) - Len(ext))
     ELSE base

(***************************************************************************)
(* Insertion-ordered maps (JavaScript Map, and plain objects with string   *)
(* keys): a sequence of <<key, value>> with distinct keys.  set() on an    *)
(* existing key replaces the value and keeps the key's position.           *)
(***************************************************************************)
MapHas(m, k) == \E i \in 1..Len(m) : m[i][1] = k

MapGet(m, k) == m[CHOOSE i \in 1..Len(m) : m[i][1] = k][2]

MapSet(m, k, v) ==
  IF MapHas(m, k)
  THEN [i \in 1..Len(m) |-> IF m[i][1] = k THEN <<k, v>> ELSE m[i]]
  ELSE Append(m, <<k, v>>)

MapKeys(m) == {m[i][1] : i \in 1..Len(m)}

(***************************************************************************)
(* The browser before the page is opened: the state each useState of the   *)
(* Index component starts with, and cacheService with an empty Map.        *)
(***************************************************************************)
InitialPage ==
  [modelSettings |-> <<>>, loading |-> TRUE, error |-> "", refreshing |-> FALSE,
   refreshingTeamMapping |-> FALSE, snowflakeAvailable |-> "null",
   checkingSnowflake |-> TRUE, providerError |-> ""]

BrowserClosed ==
  /\ mounted = FALSE
  /\ page = InitialPage
  /\ cache = <<>>
  /\ dateNow = 0
  /\ requests = <<>>
  /\ pending = {}
  /\ refreshed = 0

(***************************************************************************)
(* The resolver's inputs.                                                  *)
(***************************************************************************)
Teams == {"Payments", "Clarity", "Unknown"}

\* cedarRoot = path.join(__dirname, '../../'), which ends with a separator
cedarRoot == <<"/", "cedar", "/">>

MARKER == <<"/", "model_settings", "/", "__init__", ".py">>

INIT_PY == <<"/", "__init__", ".py">>

PatternPool ==
  { <<>>,
    <<"api", "/">>,
    <<"api", "/", "model_settings">>,
    <<"api", "/", "model_settings", "/">>,
    <<"api", "/", "model_settings", "/", "foo", ".py">>,
    <<"api", "/", "model_settings", "/", "__init__", ".py">> }

RelativePathPool ==
  { <<"api", "/", "model_settings", "/", "foo", ".py">>,
    <<"api", "/", "model_settings", "/", "sub", "/", "foo", ".py">>,
    <<"pay", "/", "model_settings", "/", "bar", ".py">> }

\* What fs.readFileSync and the name= regular expression give for a file:
\* readable is FALSE when the read throws; nameLiteral is the captured group of
\* /name=["']([^"']+)["']/, or <<>> when the text has no match (the group is
\* never empty).
ContentPool ==
  { [readable |-> FALSE, nameLiteral |-> <<>>],
    [readable |-> TRUE, nameLiteral |-> <<>>],
    [readable |-> TRUE, nameLiteral |-> <<"bar">>] }

(***************************************************************************)
(* generateTeamMappingFromYaml, step by step.                              *)
(***************************************************************************)
\* One file entry of the manifest: pathToTeam.set(file.path, teamName), and
\* the separator-stripped path as well when the path ends with "/".
AddOwnedPath(m, e) ==
  IF e.path = <<>> THEN m
  ELSE LET m1 == MapSet(m, e.path, e.team)
       IN IF EndsWith(e.path, SEP) THEN MapSet(m1, DropLast(e.path), e.team) ELSE m1

RECURSIVE BuildPathToTeam(_, _)
BuildPathToTeam(man, acc) ==
  IF man = <<>> THEN acc
  ELSE BuildPathToTeam(Tail(man), AddOwnedPath(acc, Head(man)))

\* Mutant: the directory key keeps the /__init__.py suffix.
AddDirectory_KeepInit(d, entry) ==
  IF Includes(entry[1], MARKER) THEN MapSet(d, entry[1], entry[2]) ELSE d

\* One iteration of the loop over pathToTeam.entries() that fills directoryToTeam.
AddDirectory(d, entry) ==
  IF Includes(entry[1], MARKER)
  THEN MapSet(d, ReplaceFirst(entry[1], INIT_PY, <<>>), entry[2])
  ELSE d

RECURSIVE BuildDirectoryToTeam(_, _)
BuildDirectoryToTeam(entries, acc) ==
  IF entries = <<>> THEN acc
  ELSE BuildDirectoryToTeam(Tail(entries), AddDirectory(acc, Head(entries)))

\* Mutant: only owned paths that end with a separator are tried.
UnderOwnedPath_TrailingOnly(relativePath, ownedPath) ==
  EndsWith(ownedPath, SEP) /\ StartsWith(relativePath, ownedPath)

\* The test of the parent-directory loop for one owned path.
UnderOwnedPath(relativePath, ownedPath) ==
  \/ StartsWith(relativePath, ownedPath \o SEP)
  \/ (EndsWith(ownedPath, SEP) /\ StartsWith(relativePath, ownedPath))

\* Mutant: the loop without its break, so that the last owning entry wins.
ParentScan_NoBreak(p2t, relativePath, i) ==
  LET owning == {j \in i..Len(p2t) : UnderOwnedPath(relativePath, p2t[j][1])}
  IN IF owning = {} THEN 0 ELSE MaxOf(owning)

\* The loop over pathToTeam.entries() with its break: the index of the first
\* entry from i on that owns the path, or 0.
RECURSIVE ParentScan(_, _, _)
ParentScan(p2t, relativePath, i) ==
  IF i > Len(p2t) THEN 0
  ELSE IF UnderOwnedPath(relativePath, p2t[i][1]) THEN i
  ELSE ParentScan(p2t, relativePath, i + 1)

\* Mutant: the directory index is consulted before the parent-directory loop.
FindOwner_DirectoryFirst(p2t, d2t, relativePath) ==
  IF MapHas(p2t, relativePath)
  THEN [owningTeam |-> MapGet(p2t, relativePath), found |-> TRUE]
  ELSE IF MapHas(d2t, Dirname(relativePath))
       THEN [owningTeam |-> MapGet(d2t, Dirname(relativePath)), found |-> TRUE]
       ELSE LET i == ParentScan(p2t, relativePath, 1)
            IN IF i # 0 THEN [owningTeam |-> p2t[i][2], found |-> TRUE]
               ELSE [owningTeam |-> "Unknown", found |-> FALSE]

\* The cascade for one file: the owning team and whether the file was matched.
FindOwner(p2t, d2t, relativePath) ==
  IF MapHas(p2t, relativePath)
  THEN [owningTeam |-> MapGet(p2t, relativePath), found |-> TRUE]
  ELSE LET i == ParentScan(p2t, relativePath, 1)
       IN IF i # 0 THEN [owningTeam |-> p2t[i][2], found |-> TRUE]
          ELSE IF MapHas(d2t, Dirname(relativePath))
               THEN [owningTeam |-> MapGet(d2t, Dirname(relativePath)), found |-> TRUE]
               ELSE [owningTeam |-> "Unknown", found |-> FALSE]

\* The setting name of a file: the name= literal, else the file's base name.
SettingNameOf(file) ==
  IF file.content.readable /\ file.content.nameLiteral # <<>>
  THEN file.content.nameLiteral
  ELSE Basename(file.filePath, <<".py">>)

\* const rootWithSlash = ...; filePath.replace(rootWithSlash, '')
RelativePathOf(filePath) ==
  LET rootWithSlash == IF EndsWith(cedarRoot, SEP) THEN cedarRoot ELSE cedarRoot \o SEP
  IN ReplaceFirst(filePath, rootWithSlash, <<>>)

\* Mutant: a name that is already mapped keeps its first team.
StoreMapping_KeepFirst(mapping, settingName, owningTeam) ==
  IF MapHas(mapping, settingName) THEN mapping ELSE MapSet(mapping, settingName, owningTeam)

\* teamMapping[settingName] = owningTeam
StoreMapping(mapping, settingName, owningTeam) == MapSet(mapping, settingName, owningTeam)

\* The value NaN of a JavaScript number (no count is negative).
NaN == -1

\* x + 1 and x + y on JavaScript numbers
Increment(x) == IF x = NaN THEN NaN ELSE x + 1

Plus(x, y) == IF x = NaN \/ y = NaN THEN NaN ELSE x + y

\* The names every plain object inherits from Object.prototype, as team
\* names (constructor stands for them: toString, valueOf, ...).
InheritedNames == {"constructor"}

\* if (!teamStats[owningTeam]) teamStats[owningTeam] = 0; teamStats[owningTeam]++
\* teamStats is a plain object: for an inherited name the test finds the
\* inherited function, nothing is set to 0, and ++ on the function stores NaN;
\* NaN is falsy, so the next file of that team starts from 0.
CountTeam(stats, team) ==
  LET current == IF MapHas(stats, team) /\ MapGet(stats, team) # NaN
                 THEN MapGet(stats, team)
                 ELSE IF ~MapHas(stats, team) /\ team \in InheritedNames THEN NaN
                 ELSE 0
  IN MapSet(stats, team, Increment(current))

\* Mutant: a file that cannot be read is skipped.
ProcessFile_SkipUnreadable(acc, file, p2t, d2t) ==
  IF ~file.content.readable THEN acc
  ELSE LET relativePath == RelativePathOf(file.filePath)
           settingName == SettingNameOf(file)
           owner == FindOwner(p2t, d2t, relativePath)
       IN [ teamMapping |-> StoreMapping(acc.teamMapping, settingName, owner.owningTeam),
            teamStats |-> CountTeam(acc.teamStats, owner.owningTeam),
            matchedCount |-> acc.matchedCount + (IF owner.found THEN 1 ELSE 0),
            unmatchedFiles |-> IF owner.found THEN acc.unmatchedFiles
                               ELSE Append(acc.unmatchedFiles, relativePath),
            resolved |-> Append(acc.resolved,
                                [relativePath |-> relativePath,
                                 settingName |-> settingName,
                                 owningTeam |-> owner.owningTeam]) ]

\* The body of settingFiles.forEach for one file.
ProcessFile(acc, file, p2t, d2t) ==
  LET relativePath == RelativePathOf(file.filePath)
      settingName == SettingNameOf(file)
      owner == FindOwner(p2t, d2t, relativePath)
  IN [ teamMapping |-> StoreMapping(acc.teamMapping, settingName, owner.owningTeam),
       teamStats |-> CountTeam(acc.teamStats, owner.owningTeam),
       matchedCount |-> acc.matchedCount + (IF owner.found THEN 1 ELSE 0),
       unmatchedFiles |-> IF owner.found THEN acc.unmatchedFiles
                          ELSE Append(acc.unmatchedFiles, relativePath),
       resolved |-> Append(acc.resolved,
                           [relativePath |-> relativePath,
                            settingName |-> settingName,
                            owningTeam |-> owner.owningTeam]) ]

RECURSIVE ProcessFiles(_, _, _, _)
ProcessFiles(acc, files, p2t, d2t) ==
  IF files = <<>> THEN acc
  ELSE ProcessFiles(ProcessFile(acc, Head(files), p2t, d2t), Tail(files), p2t, d2t)

\* Mutant: unmatched_count is read from the "Unknown" entry of teamStats.
Summary_CountUnknownTeam(run) ==
  [ total_settings |-> Len(run.teamMapping),
    total_teams |-> Len(run.teamStats),
    matched_count |-> run.matchedCount,
    unmatched_count |-> IF MapHas(run.teamStats, "Unknown")
                        THEN MapGet(run.teamStats, "Unknown") ELSE 0,
    teams |-> run.teamStats ]

\* const summary = {...}; the generated_at timestamp is left out.
Summary(run) ==
  [ total_settings |-> Len(run.teamMapping),
    total_teams |-> Len(run.teamStats),
    matched_count |-> run.matchedCount,
    unmatched_count |-> Len(run.unmatchedFiles),
    teams |-> run.teamStats ]

\* generated_at: new Date().toISOString(), added to the summary
Stamped(summary, clock) == [generated_at |-> clock] @@ summary

\* The file team-mapping.json: absent; holding text that is not JSON; or
\* holding the JSON text of a document (JSON.stringify, and JSON.parse back).
AbsentFile == [status |-> "absent", json |-> <<>>]

WrittenFile(doc) == [status |-> "json", json |-> <<doc>>]

\* Mutant: a manifest that cannot be loaded counts as an empty manifest.
LoadManifest_EmptyOnFailure(readable, man) == IF readable THEN <<man>> ELSE << <<>> >>

\* fs.readFileSync(yamlPath) and yaml.load: <<the entries>>, or <<>> when the
\* read or the parse throws.
LoadManifest(readable, man) == IF readable THEN <<man>> ELSE <<>>

\* Mutant: the run starts from the counts and the mapping of the snapshot file.
EmptyRun_MergePrevious ==
  IF teamMappingJson.status = "json"
  THEN [teamMapping |-> teamMappingJson.json[1].mapping,
        teamStats |-> teamMappingJson.json[1].summary.teams,
        matchedCount |-> teamMappingJson.json[1].summary.matched_count,
        unmatchedFiles |-> <<>>, resolved |-> <<>>]
  ELSE [teamMapping |-> <<>>, teamStats |-> <<>>, matchedCount |-> 0,
        unmatchedFiles |-> <<>>, resolved |-> <<>>]

\* const teamMapping = {}; const teamStats = {}; let matchedCount = 0; ...
EmptyRun ==
  [teamMapping |-> <<>>, teamStats |-> <<>>, matchedCount |-> 0,
   unmatchedFiles |-> <<>>, resolved |-> <<>>]

\* execSync(findCommand): the pipeline ends in grep -v, whose exit status is 1
\* when it selects no line, and execSync throws on a non-zero exit status.
FindThrows(files) == files = <<>>

(***************************************************************************)
(* The resolver as a state machine: the manifest and the file list are     *)
(* set up entry by entry, then the resolver runs.                          *)
(***************************************************************************)
InitResolver ==
  /\ manifest = <<>>
  /\ yamlReadable = TRUE
  /\ settingFiles = <<>>
  /\ pathToTeam = <<>>
  /\ directoryToTeam = <<>>
  /\ resolved = <<>>
  /\ result = <<>>
  /\ thrown = <<>>
  /\ now = 0
  /\ teamMappingJson = AbsentFile
  /\ ms = {}
  /\ msv = {}
  /\ settled = <<>>
  /\ teamMapping = <<>>
  /\ allSettings = <<>>
  /\ unusedSettings = <<>>
  /\ response = <<>>
  /\ stdout = <<>>
  /\ child = [state |-> "none", code |-> 0, signalled |-> FALSE, errored |-> FALSE]
  /\ timer = "cleared"
  /\ elapsed = 0
  /\ promise = <<>>
  /\ settleCalls = 0
  /\ serving = FALSE
  /\ loads = {}
  /\ inflight = {}
  /\ nextId = 0
  /\ answered = 0
  /\ jsonData = <<>>
  /\ results = <<>>
  /\ BrowserClosed

\* CODE_OWNERSHIP.yml gains one files entry {path} under a team.
AddOwnershipEntry ==
  /\ result = <<>>
  /\ Len(manifest) < MaxEntries
  /\ \E t \in Teams, p \in PatternPool :
       manifest' = Append(manifest, [team |-> t, path |-> p])
  /\ UNCHANGED <<yamlReadable, settingFiles, pathToTeam, directoryToTeam, resolved,
                 result, thrown, now, teamMappingJson>>
  /\ UNCHANGED <<classifierVars, queryVars, serverVars, convertVars, browserVars>>

\* The find command lists one more model_settings file; find lists a path once.
AddSettingFile ==
  /\ result = <<>>
  /\ Len(settingFiles) < MaxFiles
  /\ \E rel \in RelativePathPool, c \in ContentPool :
       /\ \A i \in 1..Len(settingFiles) : settingFiles[i].filePath # cedarRoot \o rel
       /\ settingFiles' = Append(settingFiles, [filePath |-> cedarRoot \o rel, content |-> c])
  /\ UNCHANGED <<manifest, yamlReadable, pathToTeam, directoryToTeam, resolved,
                 result, thrown, now, teamMappingJson>>
  /\ UNCHANGED <<classifierVars, queryVars, serverVars, convertVars, browserVars>>

\* One call of generateTeamMappingFromYaml, from the try to the return or the
\* rethrow: the manifest is read, the files are found and processed, the
\* snapshot file is written.
GenerateTeamMappingFromYaml ==
  /\ now < MaxRuns
  /\ IF LoadManifest(yamlReadable, manifest) = <<>>
     THEN /\ thrown' = <<"cannot load CODE_OWNERSHIP.yml">>
          /\ result' = <<>>
          /\ UNCHANGED <<pathToTeam, directoryToTeam, resolved, now, teamMappingJson>>
     ELSE LET ownershipData == LoadManifest(yamlReadable, manifest)[1]
              p2t == BuildPathToTeam(ownershipData, <<>>)
              d2t == BuildDirectoryToTeam(p2t, <<>>)
              run == ProcessFiles(EmptyRun, settingFiles, p2t, d2t)
              res == [summary |-> Stamped(Summary(run), now + 1),
                      mapping |-> run.teamMapping]
          IN IF FindThrows(settingFiles)
             THEN /\ thrown' = <<"Command failed: find">>
                  /\ result' = <<>>
                  /\ UNCHANGED <<pathToTeam, directoryToTeam, resolved, now,
                                 teamMappingJson>>
             ELSE /\ thrown' = <<>>
                  /\ now' = now + 1
                  /\ pathToTeam' = p2t
                  /\ directoryToTeam' = d2t
                  /\ resolved' = run.resolved
                  /\ result' = <<res>>
                  /\ teamMappingJson' = WrittenFile(res)
  /\ UNCHANGED <<manifest, yamlReadable, settingFiles>>
  /\ UNCHANGED <<classifierVars, queryVars, serverVars, convertVars, browserVars>>

NextResolver ==
  \/ AddOwnershipEntry
  \/ AddSettingFile
  \/ GenerateTeamMappingFromYaml

SpecResolver == InitResolver /\ [][NextResolver]_vars

(***************************************************************************)
(* The resolver run again and again on inputs that stay as they are, while *)
(* the manifest file may become unreadable and readable again.             *)
(***************************************************************************)
SeqsUpTo(S, n) == UNION {[1..k -> S] : k \in 0..n}

RerunManifests ==
  SeqsUpTo([team : {"Payments", "Clarity"},
            path : {<<"api", "/">>,
                    <<"api", "/", "model_settings", "/", "__init__", ".py">>}],
           MaxEntries)

RerunFileLists ==
  {fs \in SeqsUpTo([filePath : {cedarRoot \o rel : rel \in RelativePathPool},
                    content : ContentPool], MaxFiles) :
     \A i, j \in 1..Len(fs) : i # j => fs[i].filePath # fs[j].filePath}

InitRerun ==
  /\ manifest \in RerunManifests
  /\ yamlReadable \in BOOLEAN
  /\ settingFiles \in RerunFileLists
  /\ pathToTeam = <<>>
  /\ directoryToTeam = <<>>
  /\ resolved = <<>>
  /\ result = <<>>
  /\ thrown = <<>>
  /\ now = 0
  /\ teamMappingJson = AbsentFile
  /\ ms = {}
  /\ msv = {}
  /\ settled = <<>>
  /\ teamMapping = <<>>
  /\ allSettings = <<>>
  /\ unusedSettings = <<>>
  /\ response = <<>>
  /\ stdout = <<>>
  /\ child = [state |-> "none", code |-> 0, signalled |-> FALSE, errored |-> FALSE]
  /\ timer = "cleared"
  /\ elapsed = 0
  /\ promise = <<>>
  /\ settleCalls = 0
  /\ serving = FALSE
  /\ loads = {}
  /\ inflight = {}
  /\ nextId = 0
  /\ answered = 0
  /\ jsonData = <<>>
  /\ results = <<>>
  /\ BrowserClosed

\* CODE_OWNERSHIP.yml is removed, or made unreadable or unparsable.
ManifestLost ==
  /\ yamlReadable
  /\ yamlReadable' = FALSE
  /\ UNCHANGED <<manifest, settingFiles, pathToTeam, directoryToTeam, resolved,
                 result, thrown, now, teamMappingJson>>
  /\ UNCHANGED <<classifierVars, queryVars, serverVars, convertVars, browserVars>>

\* CODE_OWNERSHIP.yml is back with the content it had.
ManifestRestored ==
  /\ ~yamlReadable
  /\ yamlReadable' = TRUE
  /\ UNCHANGED <<manifest, settingFiles, pathToTeam, directoryToTeam, resolved,
                 result, thrown, now, teamMappingJson>>
  /\ UNCHANGED <<classifierVars, queryVars, serverVars, convertVars, browserVars>>

NextRerun ==
  \/ GenerateTeamMappingFromYaml
  \/ ManifestLost
  \/ ManifestRestored

SpecRerun == InitRerun /\ [][NextRerun]_vars

(***************************************************************************)
(* The two indexes of the resolver, built from manifests whose paths       *)
(* contain the package-init marker in other places than their end.         *)
(***************************************************************************)
MaxIndexEntries == 2

IndexPatternPool ==
  { <<"api", "/">>,
    <<"api", "/", "model_settings", "/", "foo", ".py">>,
    <<"api", "/", "model_settings", "/", "__init__", ".py">>,
    <<"pay", "/", "model_settings", "/", "__init__", ".py">>,
    <<"model_settings", "/", "__init__", ".py">>,
    <<"api", "/", "model_settings", "/", "__init__", ".py", "i">>,
    <<"api", "/", "model_settings", "/", "__init__", ".py", "/">>,
    <<"api", "/", "__init__", ".py", "/", "model_settings", "/", "__init__", ".py">> }

IndexManifests ==
  SeqsUpTo([team : {"Payments", "Clarity"}, path : IndexPatternPool], MaxIndexEntries)

InitIndexes ==
  /\ manifest \in IndexManifests
  /\ yamlReadable = TRUE
  /\ settingFiles = <<>>
  /\ pathToTeam = <<>>
  /\ directoryToTeam = <<>>
  /\ resolved = <<>>
  /\ result = <<>>
  /\ thrown = <<>>
  /\ now = 0
  /\ teamMappingJson = AbsentFile
  /\ ms = {}
  /\ msv = {}
  /\ settled = <<>>
  /\ teamMapping = <<>>
  /\ allSettings = <<>>
  /\ unusedSettings = <<>>
  /\ response = <<>>
  /\ stdout = <<>>
  /\ child = [state |-> "none", code |-> 0, signalled |-> FALSE, errored |-> FALSE]
  /\ timer = "cleared"
  /\ elapsed = 0
  /\ promise = <<>>
  /\ settleCalls = 0
  /\ serving = FALSE
  /\ loads = {}
  /\ inflight = {}
  /\ nextId = 0
  /\ answered = 0
  /\ jsonData = <<>>
  /\ results = <<>>
  /\ BrowserClosed

\* The part of generateTeamMappingFromYaml that builds pathToTeam and then
\* directoryToTeam.
BuildIndexes ==
  /\ pathToTeam = <<>>
  /\ LET p2t == BuildPathToTeam(manifest, <<>>)
     IN /\ pathToTeam' = p2t
        /\ directoryToTeam' = BuildDirectoryToTeam(p2t, <<>>)
  /\ UNCHANGED <<manifest, yamlReadable, settingFiles, resolved, result, thrown, now,
                 teamMappingJson>>
  /\ UNCHANGED <<classifierVars, queryVars, serverVars, convertVars, browserVars>>

NextIndexes == BuildIndexes

SpecIndexes == InitIndexes /\ [][NextIndexes]_vars

(***************************************************************************)
(* The resolver run on manifests whose teams include a name that every     *)
(* plain object inherits, and on files whose setting names collide.        *)
(***************************************************************************)
CountManifests ==
  SeqsUpTo([team : {"Payments", "constructor"},
            path : {<<"api", "/">>,
                    <<"pay", "/", "model_settings", "/", "__init__", ".py">>}],
           MaxEntries)

InitCounts ==
  /\ manifest \in CountManifests
  /\ yamlReadable = TRUE
  /\ settingFiles \in RerunFileLists
  /\ pathToTeam = <<>>
  /\ directoryToTeam = <<>>
  /\ resolved = <<>>
  /\ result = <<>>
  /\ thrown = <<>>
  /\ now = 0
  /\ teamMappingJson = AbsentFile
  /\ ms = {}
  /\ msv = {}
  /\ settled = <<>>
  /\ teamMapping = <<>>
  /\ allSettings = <<>>
  /\ unusedSettings = <<>>
  /\ response = <<>>
  /\ stdout = <<>>
  /\ child = [state |-> "none", code |-> 0, signalled |-> FALSE, errored |-> FALSE]
  /\ timer = "cleared"
  /\ elapsed = 0
  /\ promise = <<>>
  /\ settleCalls = 0
  /\ serving = FALSE
  /\ loads = {}
  /\ inflight = {}
  /\ nextId = 0
  /\ answered = 0
  /\ jsonData = <<>>
  /\ results = <<>>
  /\ BrowserClosed

NextCounts == GenerateTeamMappingFromYaml

SpecCounts == InitCounts /\ [][NextCounts]_vars

(***************************************************************************)
(* The warehouse.  A nullable column holds <<>> for NULL and <<x>> for the *)
(* value x.                                                                *)
(***************************************************************************)
SettingNames == {<<"bar">>, <<"foo">>}

\* the names in the order of ORDER BY ms.name
NameOrder == << <<"bar">>, <<"foo">> >>

Pods == {"pod1", "pod2"}

Ids == {1, 2}

Values == {"false", "true"}

ConditionalSchemas == {<<>>, <<"schema">>}

Percents == {40, 100}

ModelSettingRows ==
  [id : Ids, pod_prefix : Pods, name : SettingNames, value : Values,
   conditional_schema : ConditionalSchemas]

ModelSettingValueRows ==
  [model_setting_id : Ids, pod_prefix : Pods, value : Values, percent : Percents]

\* ON ms.id = msv.model_setting_id AND ms.pod_prefix = msv.pod_prefix
JoinCondition(m, v) == m.id = v.model_setting_id /\ m.pod_prefix = v.pod_prefix

\* ms LEFT JOIN msv: one row per matching pair, and one row with NULL msv
\* columns for a setting row without a match.
LeftJoin(settings, values) ==
  {[ms |-> mv[1], msv_value |-> <<mv[2].value>>, msv_percent |-> <<mv[2].percent>>] :
     mv \in {x \in settings \X values : JoinCondition(x[1], x[2])}}
  \cup
  {[ms |-> m, msv_value |-> <<>>, msv_percent |-> <<>>] :
     m \in {x \in settings : \A v \in values : ~JoinCondition(x, v)}}

\* COUNT(expr), given the rows of the group where expr is not NULL
SqlCount(rowsNotNull) == Cardinality(rowsNotNull)

\* Mutant: the clause on msv.percent is missing.
Having_NoPercentClause(group) ==
  /\ Cardinality({j.ms.value : j \in group}) = 1
  /\ SqlCount({j \in group : j.msv_value # <<>> /\ j.msv_value = <<j.ms.value>>})
       = SqlCount({j \in group : j.msv_value # <<>>})

\* The HAVING clause of UNUSED_MODEL_SETTINGS_QUERY on one group.
Having(group) ==
  /\ Cardinality({j.ms.value : j \in group}) = 1
  /\ SqlCount({j \in group : j.msv_value # <<>> /\ j.msv_value = <<j.ms.value>>})
       = SqlCount({j \in group : j.msv_value # <<>>})
  /\ SqlCount({j \in group : j.msv_value # <<>> /\ j.msv_percent # <<>>
                                 /\ j.msv_percent # <<100>>}) = 0

\* WHERE ms.conditional_schema IS NULL
WhereClause(j) == j.ms.conditional_schema = <<>>

\* ORDER BY ms.name over a set of names
OrderByName(names) ==
  LET Keep(n) == n \in names IN SelectSeq(NameOrder, Keep)

\* UNUSED_MODEL_SETTINGS_QUERY: the rows the CLI prints, keyed NAME
UNUSED_MODEL_SETTINGS_QUERY(settings, values) ==
  LET filtered == {j \in LeftJoin(settings, values) : WhereClause(j)}
      Group(n) == {j \in filtered : j.ms.name = n}
      names == {n \in {j.ms.name : j \in filtered} : Having(Group(n))}
      ordered == OrderByName(names)
  IN [k \in 1..Len(ordered) |-> [NAME |-> ordered[k]]]

\* ALL_MODEL_SETTINGS_QUERY: one row per name (the description and
\* created_date columns are not part of the model)
ALL_MODEL_SETTINGS_QUERY(settings) ==
  LET ordered == OrderByName({m.name : m \in settings})
  IN [k \in 1..Len(ordered) |-> [NAME |-> ordered[k]]]

\* The row conversion at the end of executeSnowflakeQuery.
ConvertRows(rows) == [k \in 1..Len(rows) |-> [name |-> rows[k].NAME]]

(***************************************************************************)
(* getAllModelSettings and its two routes.                                 *)
(***************************************************************************)
\* How one executeSnowflakeQuery call settles: with rows, or rejected.
QueryOutcomes == {"rows", "timed out", "failed"}

ErrorMessage(outcome) ==
  IF outcome = "timed out" THEN "Snowflake query timed out"
  ELSE "Snowflake query failed"

RowNames(rows) == {rows[k].name : k \in 1..Len(rows)}

\* The names that every plain object inherits from Object.prototype
\* (constructor stands for them: toString, valueOf, hasOwnProperty, ...).
ObjectPrototypeKeys == {<<"constructor">>}

\* The value of such an inherited property, a function.
InheritedProperty(name) == "function Object() { [native code] }"

\* Mutant: a name without team is given the empty team.
TeamOf_NoDefault(mapping, name) ==
  IF MapHas(mapping, name) THEN MapGet(mapping, name)
  ELSE IF name \in ObjectPrototypeKeys THEN InheritedProperty(name)
  ELSE ""

\* teamMapping[setting.name] || 'Unknown', teamMapping being a plain object:
\* the lookup gives the own property, else the inherited one, else undefined;
\* undefined and the empty string are falsy.
TeamOf(mapping, name) ==
  IF MapHas(mapping, name)
  THEN (IF MapGet(mapping, name) # "" THEN MapGet(mapping, name) ELSE "Unknown")
  ELSE IF name \in ObjectPrototypeKeys THEN InheritedProperty(name)
  ELSE "Unknown"

\* Mutant: the negation of unusedNames.has is dropped.
InUse_NegationDropped(name, usedNames, unusedNames) == name \in unusedNames

\* usedNames.has(setting.name) && !unusedNames.has(setting.name)
InUse(name, usedNames, unusedNames) == name \in usedNames /\ name \notin unusedNames

\* Mutant: a row for every name of either result.
CombineSettings_UnionOfNames(all, unused, mapping) ==
  LET unusedNames == RowNames(unused)
      usedNames == {n \in RowNames(all) : n \notin unusedNames}
      Extra(r) == r.name \notin RowNames(all)
      rows == all \o SelectSeq(unused, Extra)
  IN [k \in 1..Len(rows) |->
        [name |-> rows[k].name,
         inUse |-> InUse(rows[k].name, usedNames, unusedNames),
         team |-> TeamOf(mapping, rows[k].name)]]

\* The body of getAllModelSettings after both queries resolved.
CombineSettings(all, unused, mapping) ==
  LET unusedNames == RowNames(unused)
      usedNames == {n \in RowNames(all) : n \notin unusedNames}
  IN [k \in 1..Len(all) |->
        [name |-> all[k].name,
         inUse |-> InUse(all[k].name, usedNames, unusedNames),
         team |-> TeamOf(mapping, all[k].name)]]

\* Mutant: a failed unused query is treated as an empty unused result.
SettleAll_IgnoreUnusedFailure(oAll, oUnused, first) ==
  IF oAll = "rows" THEN <<>>
  ELSE <<ErrorMessage(oAll)>>

\* Promise.all over the two queries: <<>> when both resolved, else the error
\* of the query that rejected first.
SettleAll(oAll, oUnused, first) ==
  IF oAll = "rows" /\ oUnused = "rows" THEN <<>>
  ELSE IF oAll # "rows" /\ (oUnused = "rows" \/ first = 1) THEN <<ErrorMessage(oAll)>>
  ELSE <<ErrorMessage(oUnused)>>

\* The response of a model-settings route.
RouteResponse(route, error, combined) ==
  IF error = <<>>
  THEN [route |-> route, status |-> 200, success |-> TRUE, data |-> combined,
        count |-> Len(combined), error |-> <<>>]
  ELSE [route |-> route, status |-> 500, success |-> FALSE, data |-> <<>>,
        count |-> 0, error |-> error]

Routes == {"GET /api/model-settings/all", "POST /api/model-settings/refresh"}

\* teamMapping after loadTeamMapping() at startup
LoadedTeamMapping == << << <<"foo">>, "Payments" >> >>

InitClassifier ==
  /\ manifest = <<>>
  /\ yamlReadable = TRUE
  /\ thrown = <<>>
  /\ now = 0
  /\ settingFiles = <<>>
  /\ pathToTeam = <<>>
  /\ directoryToTeam = <<>>
  /\ resolved = <<>>
  /\ result = <<>>
  /\ teamMappingJson = AbsentFile
  /\ ms = {}
  /\ msv = {}
  /\ settled = <<>>
  /\ teamMapping = LoadedTeamMapping
  /\ allSettings = <<>>
  /\ unusedSettings = <<>>
  /\ response = <<>>
  /\ stdout = <<>>
  /\ child = [state |-> "none", code |-> 0, signalled |-> FALSE, errored |-> FALSE]
  /\ timer = "cleared"
  /\ elapsed = 0
  /\ promise = <<>>
  /\ settleCalls = 0
  /\ serving = TRUE
  /\ loads = {LoadedTeamMapping}
  /\ inflight = {}
  /\ nextId = 0
  /\ answered = 0
  /\ jsonData = <<>>
  /\ results = <<>>
  /\ BrowserClosed

\* The warehouse gains a model-setting row; (pod_prefix, id) is its key.
InsertModelSetting ==
  /\ response = <<>>
  /\ Cardinality(ms) < MaxSettingRows
  /\ \E m \in ModelSettingRows :
       /\ \A x \in ms : ~(x.id = m.id /\ x.pod_prefix = m.pod_prefix)
       /\ ms' = ms \cup {m}
  /\ UNCHANGED <<msv, teamMapping, allSettings, unusedSettings, settled, response,
                 resolverVars, queryVars, serverVars, convertVars, browserVars>>

\* The warehouse gains a model-setting-value (override) row.
InsertModelSettingValue ==
  /\ response = <<>>
  /\ Cardinality(msv) < MaxValueRows
  /\ \E v \in ModelSettingValueRows \ msv : msv' = msv \cup {v}
  /\ UNCHANGED <<ms, teamMapping, allSettings, unusedSettings, settled, response,
                 resolverVars, queryVars, serverVars, convertVars, browserVars>>

\* A request to one of the two routes, from the call of getAllModelSettings to
\* res.json: both queries are issued, each settles, the results are joined.
HandleModelSettings(route) ==
  /\ response = <<>>
  /\ \E oAll \in QueryOutcomes, oUnused \in QueryOutcomes, first \in {1, 2} :
       LET all == ConvertRows(ALL_MODEL_SETTINGS_QUERY(ms))
           unused == ConvertRows(UNUSED_MODEL_SETTINGS_QUERY(ms, msv))
           error == SettleAll(oAll, oUnused, first)
       IN /\ settled' = <<oAll, oUnused>>
          /\ allSettings' = IF error = <<>> THEN <<all>> ELSE <<>>
          /\ unusedSettings' = IF error = <<>> THEN <<unused>> ELSE <<>>
          /\ response' = <<RouteResponse(route, error,
                             IF error = <<>> THEN CombineSettings(all, unused, teamMapping)
                             ELSE <<>>)>>
  /\ UNCHANGED <<ms, msv, teamMapping, resolverVars, queryVars, serverVars, convertVars, browserVars>>

\* app.get('/api/model-settings/all') and app.post('/api/model-settings/refresh')
ModelSettingsRequest == \E route \in Routes : HandleModelSettings(route)

NextClassifier ==
  \/ InsertModelSetting
  \/ InsertModelSettingValue
  \/ ModelSettingsRequest

SpecClassifier == InitClassifier /\ [][NextClassifier]_vars

(***************************************************************************)
(* executeSnowflakeQuery: one call, from the spawn of the CLI to the       *)
(* events of the subprocess and of the timer.  The text the CLI prints is  *)
(* a sequence of lines, a line a sequence of tokens: "[" and "]", "{foo}"  *)
(* for the text of one JSON object (with the comma that separates it from  *)
(* its neighbour), " " for white space and "warn" for other text.          *)
(***************************************************************************)
QUERY_TIMEOUT_MS == 60000

LinePool ==
  { <<"[">>, <<"]">>, <<"{foo}">>, <<"warn">>, <<"[", "]">>, <<" ", "[">>,
    <<"{foo}", "]">>, <<"[", "warn", "]">> }

\* the exit code of the close event; -1 stands for null (ended by a signal)
ExitCodes == {0, 1, -1}

\* String.prototype.trim
Trim(line) ==
  LET inked == {k \in 1..Len(line) : line[k] # " "}
  IN IF inked = {} THEN <<>> ELSE SubSeq(line, MinOf(inked), MaxOf(inked))

\* The loop that looks for the JSON array: line numbers from 1, 0 for the -1
\* of the code.
RECURSIVE ScanLines(_, _, _)
ScanLines(lines, i, jsonStart) ==
  IF i > Len(lines) THEN [jsonStart |-> jsonStart, jsonEnd |-> 0]
  ELSE LET start == IF StartsWith(Trim(lines[i]), <<"[">>) THEN i ELSE jsonStart
       IN IF EndsWith(Trim(lines[i]), <<"]">>) /\ start # 0
          THEN [jsonStart |-> start, jsonEnd |-> i]
          ELSE ScanLines(lines, i + 1, start)

\* lines.slice(jsonStart, jsonEnd + 1).join('\n')
RECURSIVE JoinLines(_, _, _)
JoinLines(lines, from, to) ==
  IF from > to THEN <<>>
  ELSE IF from = to THEN lines[from]
  ELSE lines[from] \o <<"\n">> \o JoinLines(lines, from + 1, to)

\* JSON.parse, on the tokens that are not white space: the text is one array
\* whose elements are objects and arrays.
JsonTokens(text) == LET Inked(t) == t \notin {" ", "\n"} IN SelectSeq(text, Inked)

Depth(tokens, k) ==
  Cardinality({j \in 1..k : tokens[j] = "["}) - Cardinality({j \in 1..k : tokens[j] = "]"})

JsonParses(text) ==
  LET tokens == JsonTokens(text)
  IN /\ Len(tokens) >= 2
     /\ tokens[1] = "["
     /\ \A k \in 1..Len(tokens) : tokens[k] # "warn"
     /\ \A k \in 1..(Len(tokens) - 1) : Depth(tokens, k) >= 1
     /\ Depth(tokens, Len(tokens)) = 0

\* The parsed array: an object is its NAME, an array among the elements has
\* no NAME property (<<>>, which row.NAME || '' turns into the empty name).
JsonValue(text) ==
  LET tokens == JsonTokens(text)
      IsElement(k) == Depth(tokens, k - 1) = 1 /\ tokens[k] \in {"{foo}", "["}
      at == {k \in 2..Len(tokens) : IsElement(k)}
      Nth(n) == CHOOSE k \in at : Cardinality({j \in at : j < k}) = n - 1
  IN [n \in 1..Cardinality(at) |->
        [NAME |-> IF tokens[Nth(n)] = "{foo}" THEN <<"foo">> ELSE <<>>]]

Fulfilled(rows) == [state |-> "fulfilled", rows |-> rows, error |-> ""]

Rejected(message) == [state |-> "rejected", rows |-> <<>>, error |-> message]

\* Mutant: output that cannot be parsed counts as no rows.
OnParseError_ResolveEmpty(message) == Fulfilled(<<>>)

\* catch (error) { reject(new Error(`Failed to parse Snowflake JSON output: ...`)) }
OnParseError(message) == Rejected(message)

\* What the close handler passes to reject or resolve.
CloseOutcome(code, lines) ==
  IF code # 0 THEN Rejected("Snowflake query failed")
  ELSE LET range == ScanLines(lines, 1, 0)
           jsonText == JoinLines(lines, range.jsonStart, range.jsonEnd)
       IN IF range.jsonStart = 0 \/ range.jsonEnd = 0
          THEN OnParseError("Failed to parse Snowflake JSON output")
          ELSE IF ~JsonParses(jsonText)
               THEN OnParseError("Failed to parse Snowflake JSON output")
               ELSE Fulfilled(ConvertRows(JsonValue(jsonText)))

\* resolve and reject of the promise: the first call settles it, later calls
\* have no effect.
Settle(p, outcome) == IF p = <<>> THEN <<outcome>> ELSE p

\* Mutant: the handlers do not clear the timer.
ClearTimeout_Missing(t) == t

\* clearTimeout(timeout)
ClearTimeout(t) == IF t = "armed" THEN "cleared" ELSE t

\* The state when the executor of the promise has run: the CLI is spawned,
\* the handlers are registered, the timer is set.
InitQuery ==
  /\ manifest = <<>>
  /\ yamlReadable = TRUE
  /\ settingFiles = <<>>
  /\ pathToTeam = <<>>
  /\ directoryToTeam = <<>>
  /\ resolved = <<>>
  /\ result = <<>>
  /\ thrown = <<>>
  /\ now = 0
  /\ teamMappingJson = AbsentFile
  /\ ms = {}
  /\ msv = {}
  /\ settled = <<>>
  /\ teamMapping = <<>>
  /\ allSettings = <<>>
  /\ unusedSettings = <<>>
  /\ response = <<>>
  /\ stdout = <<>>
  /\ child = [state |-> "running", code |-> 0, signalled |-> FALSE, errored |-> FALSE]
  /\ timer = "armed"
  /\ elapsed = 0
  /\ promise = <<>>
  /\ settleCalls = 0
  /\ serving = FALSE
  /\ loads = {}
  /\ inflight = {}
  /\ nextId = 0
  /\ answered = 0
  /\ jsonData = <<>>
  /\ results = <<>>
  /\ BrowserClosed

\* child.stdout.on('data'): the CLI prints a line.
ChildWrites ==
  /\ child.state = "running"
  /\ Len(stdout) < MaxLines
  /\ \E line \in LinePool : stdout' = Append(stdout, line)
  /\ UNCHANGED <<child, timer, elapsed, promise, settleCalls>>
  /\ UNCHANGED <<resolverVars, classifierVars, serverVars, convertVars, browserVars>>

\* Time passes; a timer that is set fires before time passes its delay.
Tick ==
  /\ timer = "armed"
  /\ elapsed < QUERY_TIMEOUT_MS
  /\ elapsed' = elapsed + TickMs
  /\ UNCHANGED <<stdout, child, timer, promise, settleCalls>>
  /\ UNCHANGED <<resolverVars, classifierVars, serverVars, convertVars, browserVars>>

\* The callback of setTimeout.
TimeoutFires ==
  /\ timer = "armed"
  /\ elapsed >= QUERY_TIMEOUT_MS
  /\ timer' = "fired"
  /\ child' = [child EXCEPT !.signalled = TRUE]
  /\ promise' = Settle(promise, Rejected("Snowflake query timed out"))
  /\ settleCalls' = settleCalls + 1
  /\ UNCHANGED <<stdout, elapsed>>
  /\ UNCHANGED <<resolverVars, classifierVars, serverVars, convertVars, browserVars>>

\* child.on('close')
ChildCloses ==
  /\ child.state = "running"
  /\ \E code \in ExitCodes :
       /\ child' = [child EXCEPT !.state = "closed", !.code = code]
       /\ promise' = Settle(promise, CloseOutcome(code, stdout))
  /\ timer' = ClearTimeout(timer)
  /\ settleCalls' = settleCalls + 1
  /\ UNCHANGED <<stdout, elapsed>>
  /\ UNCHANGED <<resolverVars, classifierVars, serverVars, convertVars, browserVars>>

\* child.on('error'): the CLI could not be spawned, or could not be killed.
ChildErrors ==
  /\ child.state = "running"
  /\ ~child.errored
  /\ child' = [child EXCEPT !.errored = TRUE]
  /\ timer' = ClearTimeout(timer)
  /\ promise' = Settle(promise, Rejected("Error executing Snowflake query"))
  /\ settleCalls' = settleCalls + 1
  /\ UNCHANGED <<stdout, elapsed>>
  /\ UNCHANGED <<resolverVars, classifierVars, serverVars, convertVars, browserVars>>

NextQuery ==
  \/ ChildWrites
  \/ Tick
  \/ TimeoutFires
  \/ ChildCloses
  \/ ChildErrors

SpecQuery == InitQuery /\ [][NextQuery]_vars

(***************************************************************************)
(* The server process: the load of team-mapping.json at startup, the       *)
(* team-mapping refresh route, and model-settings requests that wait for   *)
(* their queries while other requests are handled.  The warehouse answers  *)
(* each query with rows of its own, the two results of a request need not  *)
(* agree.                                                                  *)
(***************************************************************************)
GarbageFile == [status |-> "garbage", json |-> <<>>]

MappingPool ==
  { <<>>,
    << << <<"foo">>, "Payments" >> >>,
    << << <<"bar">>, "Clarity" >>, << <<"foo">>, "Unknown" >> >> }

\* team-mapping.json as the server may find it: absent, not JSON, a document
\* without mapping field, a document as the resolver writes it.
FilePool ==
  {AbsentFile, GarbageFile, WrittenFile([summary |-> <<>>])}
  \cup {WrittenFile([summary |-> <<>>, mapping |-> m]) : m \in MappingPool}

\* the rows a query may resolve with (ORDER BY name)
AllResults ==
  { <<>>,
    <<[name |-> <<"foo">>]>>,
    <<[name |-> <<"bar">>], [name |-> <<"foo">>]>>,
    <<[name |-> <<"bar">>], [name |-> <<"constructor">>], [name |-> <<"foo">>]>> }

UnusedResults == { <<>>, <<[name |-> <<"foo">>]>>, <<[name |-> <<"bar">>]>> }

\* Mutant: the loaded entries are assigned into the mapping object in place.
ReplaceMapping_MergeInPlace(old, new) ==
  LET Added(kv) == ~MapHas(old, kv[1])
  IN [k \in 1..Len(old) |-> IF MapHas(new, old[k][1])
                             THEN <<old[k][1], MapGet(new, old[k][1])>> ELSE old[k]]
     \o SelectSeq(new, Added)

\* teamMapping = teamMappingData.mapping || {}
ReplaceMapping(old, new) == new

\* teamMappingData.mapping || {}
MappingField(doc) == IF "mapping" \in DOMAIN doc THEN doc.mapping ELSE <<>>

\* Mutant: a load that fails leaves the empty mapping.
LoadTeamMapping_ClearOnFailure(file, current) ==
  IF file.status # "json" THEN [loaded |-> FALSE, teamMapping |-> <<>>]
  ELSE [loaded |-> TRUE,
        teamMapping |-> ReplaceMapping(current, MappingField(file.json[1]))]

\* loadTeamMapping(): its return value and the mapping it leaves.
LoadTeamMapping(file, current) ==
  IF file.status # "json" THEN [loaded |-> FALSE, teamMapping |-> current]
  ELSE [loaded |-> TRUE,
        teamMapping |-> ReplaceMapping(current, MappingField(file.json[1]))]

REFRESH == "POST /api/team-mapping/refresh"

\* The response of the team-mapping refresh route.
RefreshResponse(loaded, mapping) ==
  IF loaded
  THEN [route |-> REFRESH, status |-> 200, success |-> TRUE,
        message |-> "Team mapping refreshed successfully",
        settingsCount |-> Len(mapping),
        summary |-> "Team mapping refresh temporarily disabled"]
  ELSE [route |-> REFRESH, status |-> 500, success |-> FALSE,
        error |-> "Failed to reload team mapping after generation"]

\* The module before its top-level statements run: let teamMapping = {}.
InitServer ==
  /\ manifest = <<>>
  /\ yamlReadable = TRUE
  /\ settingFiles = <<>>
  /\ pathToTeam = <<>>
  /\ directoryToTeam = <<>>
  /\ resolved = <<>>
  /\ result = <<>>
  /\ thrown = <<>>
  /\ now = 0
  /\ teamMappingJson \in FilePool
  /\ ms = {}
  /\ msv = {}
  /\ settled = <<>>
  /\ teamMapping = <<>>
  /\ allSettings = <<>>
  /\ unusedSettings = <<>>
  /\ response = <<>>
  /\ stdout = <<>>
  /\ child = [state |-> "none", code |-> 0, signalled |-> FALSE, errored |-> FALSE]
  /\ timer = "cleared"
  /\ elapsed = 0
  /\ promise = <<>>
  /\ settleCalls = 0
  /\ serving = FALSE
  /\ loads = {}
  /\ inflight = {}
  /\ nextId = 0
  /\ answered = 0
  /\ jsonData = <<>>
  /\ results = <<>>
  /\ BrowserClosed

\* The top-level statements: loadTeamMapping() and app.listen.
ServerStarts ==
  /\ ~serving
  /\ serving' = TRUE
  /\ LET load == LoadTeamMapping(teamMappingJson, teamMapping)
     IN /\ teamMapping' = load.teamMapping
        /\ loads' = IF teamMappingJson.status = "json"
                    THEN loads \cup {MappingField(teamMappingJson.json[1])} ELSE loads
  /\ UNCHANGED <<ms, msv, allSettings, unusedSettings, settled, response,
                 inflight, nextId, answered>>
  /\ UNCHANGED <<resolverVars, queryVars, convertVars, browserVars>>

\* team-mapping.json is written, damaged or removed by another process.
SnapshotFileChanges ==
  /\ \E file \in FilePool \ {teamMappingJson} : teamMappingJson' = file
  /\ UNCHANGED <<manifest, yamlReadable, settingFiles, pathToTeam, directoryToTeam,
                 resolved, result, thrown, now>>
  /\ UNCHANGED <<classifierVars, queryVars, serverVars, convertVars, browserVars>>

\* A model-settings route is called: getAllModelSettings issues its two
\* queries and awaits them.
ReceiveModelSettings ==
  /\ serving
  /\ nextId < MaxRequests
  /\ nextId' = nextId + 1
  /\ \E route \in Routes : inflight' = inflight \cup {[id |-> nextId + 1, route |-> route]}
  /\ UNCHANGED <<ms, msv, teamMapping, allSettings, unusedSettings, settled,
                 response, serving, loads, answered>>
  /\ UNCHANGED <<resolverVars, queryVars, convertVars, browserVars>>

\* Both queries of a waiting request have settled: the rest of
\* getAllModelSettings and of the route handler, up to res.json.
CompleteModelSettings ==
  /\ \E req \in inflight, oAll \in QueryOutcomes, oUnused \in QueryOutcomes :
       /\ inflight' = inflight \ {req}
       /\ answered' = req.id
       /\ settled' = <<oAll, oUnused>>
       /\ IF oAll = "rows" /\ oUnused = "rows"
          THEN \E all \in AllResults, unused \in UnusedResults :
                 /\ allSettings' = <<all>>
                 /\ unusedSettings' = <<unused>>
                 /\ response' = <<RouteResponse(req.route, SettleAll(oAll, oUnused, 1),
                                    CombineSettings(all, unused, teamMapping))>>
          ELSE \E first \in {1, 2} :
                 /\ allSettings' = <<>>
                 /\ unusedSettings' = <<>>
                 /\ response' = <<RouteResponse(req.route,
                                                SettleAll(oAll, oUnused, first), <<>>)>>
  /\ UNCHANGED <<ms, msv, teamMapping, serving, loads, nextId>>
  /\ UNCHANGED <<resolverVars, queryVars, convertVars, browserVars>>

\* app.post('/api/team-mapping/refresh'): the handler awaits nothing.
RefreshTeamMapping ==
  /\ serving
  /\ nextId < MaxRequests
  /\ nextId' = nextId + 1
  /\ answered' = nextId + 1
  /\ LET load == LoadTeamMapping(teamMappingJson, teamMapping)
     IN /\ teamMapping' = load.teamMapping
        /\ response' = <<RefreshResponse(load.loaded, load.teamMapping)>>
        /\ loads' = IF teamMappingJson.status = "json"
                    THEN loads \cup {MappingField(teamMappingJson.json[1])} ELSE loads
  /\ UNCHANGED <<ms, msv, allSettings, unusedSettings, settled, serving, inflight>>
  /\ UNCHANGED <<resolverVars, queryVars, convertVars, browserVars>>

NextServer ==
  \/ ServerStarts
  \/ SnapshotFileChanges
  \/ ReceiveModelSettings
  \/ CompleteModelSettings
  \/ RefreshTeamMapping

SpecServer == InitServer /\ [][NextServer]_vars

(***************************************************************************)
(* The other routes of the server: the per-setting details and the health  *)
(* check.  A JSON object is a sequence of <<key, value>>; a JSON value is  *)
(* a [kind, text] record, so that what is falsy to || is told apart.       *)
(***************************************************************************)
JsonNull == [kind |-> "null", text |-> ""]

JsonUndefined == [kind |-> "undefined", text |-> ""]

JsonString(s) == [kind |-> "string", text |-> s]

JsonNumber(digits) == [kind |-> "number", text |-> digits]

\* what || takes for false
Falsy(v) ==
  \/ v.kind \in {"null", "undefined"}
  \/ v.kind = "string" /\ v.text = ""
  \/ v.kind = "number" /\ v.text = "0"

\* row[key] on a parsed row
Prop(row, key) == IF MapHas(row, key) THEN MapGet(row, key) ELSE JsonUndefined

\* a || b || ''
OrElse(a, b) == IF ~Falsy(a) THEN a ELSE IF ~Falsy(b) THEN b ELSE JsonString("")

\* The columns of the detail query: the field of the response, the alias as
\* the query quotes it, and the key the handler tries second.
DetailColumns ==
  << <<"settingName", "Setting Name", "SETTING_NAME">>,
     <<"providerName", "Provider name", "PROVIDER_NAME">>,
     <<"specificValue", "Specific value", "SPECIFIC_VALUE">>,
     <<"defaultValue", "Default value", "DEFAULT_VALUE">>,
     <<"businessUnitName", "Business Unit Name", "BUSINESS_UNIT_NAME">>,
     <<"percentEnabled", "Percent enabled", "PERCENT_ENABLED">>,
     <<"valueKey", "Value key", "VALUE_KEY">>,
     <<"pod", "Pod", "POD">>,
     <<"valueUpdatedOn", "Value updated on", "VALUE_UPDATED_ON">>,
     <<"settingCreatedOn", "Setting created on", "SETTING_CREATED_ON">>,
     <<"conditionalSchema", "Conditional schema", "CONDITIONAL_SCHEMA">>,
     <<"conditional", "Conditional", "CONDITIONAL">>,
     <<"recordType", "Record type", "RECORD_TYPE">> >>

\* rawDetails.map((row) => ({...})) for one row
DetailOf(row) ==
  [c \in 1..Len(DetailColumns) |->
     <<DetailColumns[c][1],
       OrElse(Prop(row, DetailColumns[c][2]), Prop(row, DetailColumns[c][3]))>>]

\* The rows executeRawSnowflakeQuery may resolve with for a setting: the
\* default row of a pod, and an override row keyed in upper case.
DefaultRow(settingName) ==
  << <<"Setting Name", JsonString(settingName)>>, <<"Provider name", JsonString("Default")>>,
     <<"Specific value", JsonString("on")>>, <<"Default value", JsonString("on")>>,
     <<"Business Unit Name", JsonString("")>>, <<"Percent enabled", JsonNumber("100")>>,
     <<"Value key", JsonString("default")>>, <<"Pod", JsonString("pod1")>>,
     <<"Value updated on", JsonString("2024-01-01")>>,
     <<"Setting created on", JsonString("2024-01-01")>>,
     <<"Conditional schema", JsonNull>>, <<"Conditional", JsonNull>>,
     <<"Record type", JsonString("default")>> >>

OverrideRow(settingName) ==
  << <<"SETTING_NAME", JsonString(settingName)>>, <<"PROVIDER_NAME", JsonString("Acme")>>,
     <<"SPECIFIC_VALUE", JsonString("off")>>, <<"DEFAULT_VALUE", JsonString("on")>>,
     <<"BUSINESS_UNIT_NAME", JsonNull>>, <<"PERCENT_ENABLED", JsonNumber("0")>>,
     <<"VALUE_KEY", JsonString("provider:1")>>, <<"POD", JsonString("pod1")>>,
     <<"RECORD_TYPE", JsonString("provider_override")>> >>

DetailResults(settingName) ==
  { <<>>, <<DefaultRow(settingName)>>, <<DefaultRow(settingName), OverrideRow(settingName)>> }

DETAILS == "GET /api/model-settings/:settingName/details"

HEALTH == "GET /health"

\* The response of the details route; error is <<>> when the query resolved.
DetailsResponse(settingName, error, rawDetails) ==
  IF error = <<>>
  THEN [route |-> DETAILS, status |-> 200, success |-> TRUE, settingName |-> settingName,
        data |-> [k \in 1..Len(rawDetails) |-> DetailOf(rawDetails[k])],
        count |-> Len(rawDetails)]
  ELSE [route |-> DETAILS, status |-> 500, success |-> FALSE,
        error |-> "Failed to get model setting details", details |-> error[1]]

\* The response of the health check: its body has a field named status.
HealthResponse(clock) ==
  [route |-> HEALTH, status |-> 200, body |-> [status |-> "ok", timestamp |-> clock]]

\* app.get('/api/model-settings/:settingName/details')
ModelSettingDetails ==
  /\ serving
  /\ nextId < MaxRequests
  /\ nextId' = nextId + 1
  /\ answered' = nextId + 1
  /\ \E settingName \in {"foo", "bar"}, outcome \in QueryOutcomes :
       IF outcome = "rows"
       THEN \E rawDetails \in DetailResults(settingName) :
              response' = <<DetailsResponse(settingName, <<>>, rawDetails)>>
       ELSE response' = <<DetailsResponse(settingName, <<ErrorMessage(outcome)>>, <<>>)>>
  /\ UNCHANGED <<ms, msv, teamMapping, allSettings, unusedSettings, settled,
                 serving, loads, inflight>>
  /\ UNCHANGED <<resolverVars, queryVars, convertVars, browserVars>>

\* app.get('/health')
Health ==
  /\ serving
  /\ nextId < MaxRequests
  /\ nextId' = nextId + 1
  /\ answered' = nextId + 1
  /\ response' = <<HealthResponse(now)>>
  /\ UNCHANGED <<ms, msv, teamMapping, allSettings, unusedSettings, settled,
                 serving, loads, inflight>>
  /\ UNCHANGED <<resolverVars, queryVars, convertVars, browserVars>>

NextEndpoints ==
  \/ ServerStarts
  \/ SnapshotFileChanges
  \/ ReceiveModelSettings
  \/ CompleteModelSettings
  \/ RefreshTeamMapping
  \/ ModelSettingDetails
  \/ Health

SpecEndpoints == InitServer /\ [][NextEndpoints]_vars

(***************************************************************************)
(* The conversion of the parsed rows in executeSnowflakeQuery, with the    *)
(* rows as JSON.parse gives them: objects whose keys are as the CLI        *)
(* printed them.                                                           *)
(***************************************************************************)
MaxJsonRows == 2

\* a || ''
OrEmpty(a) == IF Falsy(a) THEN JsonString("") ELSE a

\* (row) => ({ name: row.NAME || '', description: row.DESCRIPTION || '',
\*             created_date: row.CREATED_DATE || '' })
ConvertRow(row) ==
  [name |-> OrEmpty(Prop(row, "NAME")),
   description |-> OrEmpty(Prop(row, "DESCRIPTION")),
   created_date |-> OrEmpty(Prop(row, "CREATED_DATE"))]

\* toLowerCase on the column keys
LowerCase(key) ==
  CASE key = "NAME" -> "name"
    [] key = "DESCRIPTION" -> "description"
    [] key = "CREATED_DATE" -> "created_date"
    [] OTHER -> key

\* The rows the CLI may print: each column is present under its upper-case
\* key, present under its lower-case key, or missing (null counts as present).
ColumnForms(upper, value) ==
  { <<>>, << <<upper, value>> >>, << <<LowerCase(upper), value>> >> }

JsonRowPool ==
  { n \o d \o c : n \in ColumnForms("NAME", JsonString("foo")),
                  d \in ColumnForms("DESCRIPTION", JsonNull)
                          \cup ColumnForms("DESCRIPTION", JsonString("a flag")),
                  c \in ColumnForms("CREATED_DATE", JsonString("2024-01-01")) }

InitConvert ==
  /\ manifest = <<>>
  /\ yamlReadable = TRUE
  /\ settingFiles = <<>>
  /\ pathToTeam = <<>>
  /\ directoryToTeam = <<>>
  /\ resolved = <<>>
  /\ result = <<>>
  /\ thrown = <<>>
  /\ now = 0
  /\ teamMappingJson = AbsentFile
  /\ ms = {}
  /\ msv = {}
  /\ settled = <<>>
  /\ teamMapping = <<>>
  /\ allSettings = <<>>
  /\ unusedSettings = <<>>
  /\ response = <<>>
  /\ stdout = <<>>
  /\ child = [state |-> "none", code |-> 0, signalled |-> FALSE, errored |-> FALSE]
  /\ timer = "cleared"
  /\ elapsed = 0
  /\ promise = <<>>
  /\ settleCalls = 0
  /\ serving = FALSE
  /\ loads = {}
  /\ inflight = {}
  /\ nextId = 0
  /\ answered = 0
  /\ jsonData \in SeqsUpTo(JsonRowPool, MaxJsonRows)
  /\ results = <<>>
  /\ BrowserClosed

\* const results = jsonData.map(...)
ConvertJsonData ==
  /\ results = <<>>
  /\ results' = <<[k \in 1..Len(jsonData) |-> ConvertRow(jsonData[k])]>>
  /\ UNCHANGED jsonData
  /\ UNCHANGED <<resolverVars, classifierVars, queryVars, serverVars, browserVars>>

NextConvert == ConvertJsonData

SpecConvert == InitConvert /\ [][NextConvert]_vars

(***************************************************************************)
(* The browser: the Index page, apiService and cacheService.  A request is *)
(* known by its ticket, its place in the order of issue; the data of a     *)
(* response is tagged with the ticket of its request, so that it can be    *)
(* told which request the data on the page and in the cache came from.     *)
(***************************************************************************)
TTL == 300000

MaxTickets == 4

ClockStepMs == 150000

MaxClockMs == 450000

STATUS == "/snowflake/status"

ALL == "/model-settings/all"

REFRESH_DATA == "/model-settings/refresh"

REFRESH_TEAMS == "/team-mapping/refresh"

\* cacheService.set(key, data)
CacheSet(data, t) == <<[data |-> data, timestamp |-> t]>>

\* cacheService.has(key)
CacheHas(c) == c # <<>>

\* Date.now() - cached.timestamp > this.TTL
Expired(c, t) == t - c[1].timestamp > TTL

\* cacheService.get(key): the value returned (<<>> for null) and the entry
\* that is left, an entry past its TTL being deleted.
CacheGet(c, t) ==
  IF c = <<>> THEN [value |-> <<>>, cache |-> c]
  ELSE IF Expired(c, t) THEN [value |-> <<>>, cache |-> <<>>]
  ELSE [value |-> <<c[1].data>>, cache |-> c]

\* cacheService.clear(key)
CacheClear(c) == <<>>

\* the message of the Error that ApiService.request throws: the server's
\* error bodies have no message field
RequestError == "HTTP 500: Internal Server Error"

\* loadProviders: apiService has no getAllProviders, the call throws inside
\* the try block and the message is stored.
ProviderError == "apiService.getAllProviders is not a function"

\* the snowflakeAvailable that initializeApp reads: the effect has no
\* dependencies, its closure holds the state of the first render
ClosureSnowflakeAvailable == InitialPage.snowflakeAvailable

\* the condition of the effect that depends on snowflakeAvailable
EffectLoads(pg) ==
  pg.snowflakeAvailable = "true" /\ pg.modelSettings = <<>> /\ ~pg.loading

\* Mutant: the buttons are disabled by the flag of Refresh Data only.
RefreshDisabled_DataFlagOnly(pg) == pg.refreshing

\* disabled={refreshing || refreshingTeamMapping}
RefreshDisabled(pg) == pg.refreshing \/ pg.refreshingTeamMapping

\* the buttons are rendered when snowflakeAvailable === true
ButtonsEnabled(pg) == pg.snowflakeAvailable = "true" /\ ~RefreshDisabled(pg)

\* ApiService.request: the next ticket
NextTicket == Len(requests) + 1

Endpoint(p) == requests[p.ticket]

InitPage ==
  /\ manifest = <<>>
  /\ yamlReadable = TRUE
  /\ settingFiles = <<>>
  /\ pathToTeam = <<>>
  /\ directoryToTeam = <<>>
  /\ resolved = <<>>
  /\ result = <<>>
  /\ thrown = <<>>
  /\ now = 0
  /\ teamMappingJson = AbsentFile
  /\ ms = {}
  /\ msv = {}
  /\ settled = <<>>
  /\ teamMapping = <<>>
  /\ allSettings = <<>>
  /\ unusedSettings = <<>>
  /\ response = <<>>
  /\ stdout = <<>>
  /\ child = [state |-> "none", code |-> 0, signalled |-> FALSE, errored |-> FALSE]
  /\ timer = "cleared"
  /\ elapsed = 0
  /\ promise = <<>>
  /\ settleCalls = 0
  /\ serving = FALSE
  /\ loads = {}
  /\ inflight = {}
  /\ nextId = 0
  /\ answered = 0
  /\ jsonData = <<>>
  /\ results = <<>>
  /\ BrowserClosed

\* The first effect: initializeApp runs up to its first await, the request
\* of checkSnowflakeAvailability.
Mount ==
  /\ ~mounted
  /\ mounted' = TRUE
  /\ page' = [page EXCEPT !.checkingSnowflake = TRUE]
  /\ requests' = Append(requests, STATUS)
  /\ pending' = pending \cup {[ticket |-> NextTicket, caller |-> "initializeApp"]}
  /\ UNCHANGED <<cache, dateNow, refreshed>>
  /\ UNCHANGED <<resolverVars, classifierVars, queryVars, serverVars, convertVars>>

\* The status request settles: the rest of checkSnowflakeAvailability, then
\* initializeApp up to the await inside loadModelSettings, then the effect
\* that depends on snowflakeAvailable.
StatusSettles ==
  /\ \E p \in pending, outcome \in {"available", "unavailable", "failed"} :
       /\ Endpoint(p) = STATUS
       /\ LET checked == [page EXCEPT
                            !.snowflakeAvailable =
                               IF outcome = "available" THEN "true" ELSE "false",
                            !.checkingSnowflake = FALSE]
              got == CacheGet(cache, dateNow)
              loads1 == ClosureSnowflakeAvailable # "false"
              hit == loads1 /\ got.value # <<>>
              loaded == IF ~loads1 THEN checked
                        ELSE IF hit
                        THEN [checked EXCEPT !.error = "", !.modelSettings = got.value,
                                             !.loading = FALSE,
                                             !.providerError = ProviderError]
                        ELSE [checked EXCEPT !.error = ""]
              loads2 == EffectLoads(loaded)
              fetch1 == IF loads1 /\ ~hit
                        THEN <<[ticket |-> NextTicket, caller |-> "initializeApp"]>>
                        ELSE <<>>
              fetch2 == IF loads2
                        THEN <<[ticket |-> NextTicket + Len(fetch1), caller |-> "useEffect"]>>
                        ELSE <<>>
              fetches == fetch1 \o fetch2
          IN /\ page' = IF loads2 THEN [loaded EXCEPT !.error = "",
                                                      !.providerError = ProviderError]
                        ELSE loaded
             /\ cache' = IF loads1 THEN got.cache ELSE cache
             /\ requests' = requests \o [k \in 1..Len(fetches) |-> ALL]
             /\ pending' = (pending \ {p}) \cup {fetches[k] : k \in 1..Len(fetches)}
  /\ UNCHANGED <<mounted, dateNow, refreshed>>
  /\ UNCHANGED <<resolverVars, classifierVars, queryVars, serverVars, convertVars>>

\* finally { setRefreshingTeamMapping(false) }, after the try block (ok) or
\* the catch block
FinishTeams(pg, ok) == [pg EXCEPT !.refreshingTeamMapping = FALSE]

\* A request for all model settings settles: the rest of
\* apiService.getAllModelSettings and of its caller, loadModelSettings
\* (followed in initializeApp by loadProviders) or handleRefreshTeamMapping.
AllSettles ==
  /\ \E p \in pending, ok \in BOOLEAN :
       /\ Endpoint(p) = ALL
       /\ pending' = pending \ {p}
       /\ cache' = IF ok THEN CacheSet(p.ticket, dateNow) ELSE cache
       /\ LET shown == IF ok THEN [page EXCEPT !.modelSettings = <<p.ticket>>]
                       ELSE [page EXCEPT !.error = RequestError]
          IN page' = IF p.caller = "handleRefreshTeamMapping" THEN FinishTeams(shown, ok)
                     ELSE IF p.caller = "initializeApp"
                     THEN [shown EXCEPT !.loading = FALSE, !.providerError = ProviderError]
                     ELSE [shown EXCEPT !.loading = FALSE]
  /\ UNCHANGED <<mounted, dateNow, requests, refreshed>>
  /\ UNCHANGED <<resolverVars, classifierVars, queryVars, serverVars, convertVars>>

\* The Refresh Data button: handleRefresh up to the await inside
\* apiService.refreshModelSettings.
ClickRefresh ==
  /\ mounted
  /\ ButtonsEnabled(page)
  /\ Len(requests) < MaxTickets
  /\ page' = [page EXCEPT !.refreshing = TRUE, !.error = ""]
  /\ cache' = CacheClear(cache)
  /\ requests' = Append(requests, REFRESH_DATA)
  /\ pending' = pending \cup {[ticket |-> NextTicket, caller |-> "handleRefresh"]}
  /\ UNCHANGED <<mounted, dateNow, refreshed>>
  /\ UNCHANGED <<resolverVars, classifierVars, queryVars, serverVars, convertVars>>

\* The refresh request settles: the rest of refreshModelSettings and of
\* handleRefresh.
RefreshSettles ==
  /\ \E p \in pending, ok \in BOOLEAN :
       /\ Endpoint(p) = REFRESH_DATA
       /\ pending' = pending \ {p}
       /\ cache' = IF ok THEN CacheSet(p.ticket, dateNow) ELSE cache
       /\ refreshed' = IF ok /\ p.ticket > refreshed THEN p.ticket ELSE refreshed
       /\ page' = IF ok THEN [page EXCEPT !.modelSettings = <<p.ticket>>,
                                          !.refreshing = FALSE]
                  ELSE [page EXCEPT !.error = RequestError, !.refreshing = FALSE]
  /\ UNCHANGED <<mounted, dateNow, requests>>
  /\ UNCHANGED <<resolverVars, classifierVars, queryVars, serverVars, convertVars>>

\* The Refresh Teams button: handleRefreshTeamMapping up to the await inside
\* apiService.refreshTeamMapping.
ClickRefreshTeams ==
  /\ mounted
  /\ ButtonsEnabled(page)
  /\ Len(requests) < MaxTickets
  /\ page' = [page EXCEPT !.refreshingTeamMapping = TRUE, !.error = ""]
  /\ cache' = CacheClear(cache)
  /\ requests' = Append(requests, REFRESH_TEAMS)
  /\ pending' = pending \cup {[ticket |-> NextTicket, caller |-> "handleRefreshTeamMapping"]}
  /\ UNCHANGED <<mounted, dateNow, refreshed>>
  /\ UNCHANGED <<resolverVars, classifierVars, queryVars, serverVars, convertVars>>

\* The team-mapping refresh request settles: handleRefreshTeamMapping goes
\* on to getAllModelSettings(false), or to its catch block.
TeamRefreshSettles ==
  /\ \E p \in pending, ok \in BOOLEAN :
       /\ Endpoint(p) = REFRESH_TEAMS
       /\ refreshed' = IF ok /\ p.ticket > refreshed THEN p.ticket ELSE refreshed
       /\ IF ok
          THEN /\ requests' = Append(requests, ALL)
               /\ pending' = (pending \ {p})
                               \cup {[ticket |-> NextTicket, caller |-> "handleRefreshTeamMapping"]}
               /\ page' = page
          ELSE /\ requests' = requests
               /\ pending' = pending \ {p}
               /\ page' = FinishTeams([page EXCEPT !.error = RequestError], ok)
  /\ UNCHANGED <<mounted, cache, dateNow>>
  /\ UNCHANGED <<resolverVars, classifierVars, queryVars, serverVars, convertVars>>

\* Time passes.
ClockTick ==
  /\ mounted
  /\ dateNow < MaxClockMs
  /\ dateNow' = dateNow + ClockStepMs
  /\ UNCHANGED <<mounted, page, cache, requests, pending, refreshed>>
  /\ UNCHANGED <<resolverVars, classifierVars, queryVars, serverVars, convertVars>>

NextPage ==
  \/ Mount
  \/ StatusSettles
  \/ AllSettles
  \/ ClickRefresh
  \/ RefreshSettles
  \/ ClickRefreshTeams
  \/ TeamRefreshSettles
  \/ ClockTick

SpecPage == InitPage /\ [][NextPage]_vars

\* Every request that is awaited settles in the end.
RequestsSettle ==
  /\ WF_vars(StatusSettles)
  /\ WF_vars(AllSettles)
  /\ WF_vars(RefreshSettles)
  /\ WF_vars(TeamRefreshSettles)

SpecPageLive == SpecPage /\ RequestsSettle

(***************************************************************************)
(* Vocabulary of the resolver's properties, stated on the manifest, the    *)
(* two indexes and the per-file outcome, without the resolver's loops.     *)
(***************************************************************************)
Ran == result # <<>>

FileIndexes == 1..Len(resolved)

EntryIndexes == 1..Len(manifest)

\* pattern names a directory that encloses the path
IsDirectoryPrefixOf(pattern, rel) ==
  LET dir == IF pattern # <<>> /\ pattern[Len(pattern)] = "/" THEN pattern
             ELSE pattern \o <<"/">>
  IN \E n \in 1..Len(rel) : n = Len(dir) /\ \A k \in 1..n : rel[k] = dir[k]

\* the directory that holds the file
ParentDirectory(rel) ==
  LET last == CHOOSE k \in 1..Len(rel) :
                rel[k] = "/" /\ \A j \in (k + 1)..Len(rel) : rel[j] # "/"
  IN [k \in 1..(last - 1) |-> rel[k]]

\* the pattern without its trailing separator
Stripped(pattern) ==
  IF pattern # <<>> /\ pattern[Len(pattern)] = "/"
  THEN [k \in 1..(Len(pattern) - 1) |-> pattern[k]]
  ELSE pattern

IndexTeam(index, key) == (CHOOSE kv \in {index[k] : k \in 1..Len(index)} : kv[1] = key)[2]

PrefixKeys(rel) == {j \in 1..Len(pathToTeam) : IsDirectoryPrefixOf(pathToTeam[j][1], rel)}

ExactRule(rel) == \E j \in 1..Len(pathToTeam) : pathToTeam[j][1] = rel

PrefixRule(rel) == PrefixKeys(rel) # {}

DirectoryRule(rel) ==
  \E j \in 1..Len(directoryToTeam) : directoryToTeam[j][1] = ParentDirectory(rel)

\* manifest entries that list the file itself / a directory enclosing it
EntryListsFile(e, rel) == e.path # <<>> /\ Stripped(e.path) = rel

EntryEncloses(e, rel) == e.path # <<>> /\ IsDirectoryPrefixOf(e.path, rel)

EnclosingEntries(rel) == {a \in EntryIndexes : EntryEncloses(manifest[a], rel)}

\* the processed files are the candidate files, in order, relative to the root
ProcessedInOrder ==
  /\ Len(resolved) = Len(settingFiles)
  /\ \A i \in FileIndexes : settingFiles[i].filePath = cedarRoot \o resolved[i].relativePath

\* C1: the owning team of every file is decided by the first applicable rule,
\* in the order exact key of the path index, first directory-prefix key of the
\* path index in insertion order, parent directory in the directory index,
\* "Unknown"; a later rule never decides a file an earlier rule matches.
C1_CascadeOrder ==
  Ran =>
    /\ ProcessedInOrder
    /\ \A i \in FileIndexes :
         LET rel == resolved[i].relativePath
             team == resolved[i].owningTeam
         IN /\ ExactRule(rel) => team = IndexTeam(pathToTeam, rel)
            /\ (~ExactRule(rel) /\ PrefixRule(rel)) =>
                 team = pathToTeam[MinOf(PrefixKeys(rel))][2]
            /\ (~ExactRule(rel) /\ ~PrefixRule(rel) /\ DirectoryRule(rel)) =>
                 team = IndexTeam(directoryToTeam, ParentDirectory(rel))
            /\ (~ExactRule(rel) /\ ~PrefixRule(rel) /\ ~DirectoryRule(rel)) =>
                 team = "Unknown"

\* C1 witness: a file that no exact key lists, that a directory-prefix key and
\* the directory index both own, for different teams.
C1_Witness ==
  /\ Ran
  /\ \E i \in FileIndexes :
       LET rel == resolved[i].relativePath
       IN /\ ~ExactRule(rel) /\ PrefixRule(rel) /\ DirectoryRule(rel)
          /\ pathToTeam[MinOf(PrefixKeys(rel))][2]
               # IndexTeam(directoryToTeam, ParentDirectory(rel))
          /\ resolved[i].owningTeam = pathToTeam[MinOf(PrefixKeys(rel))][2]

\* C2 (as claimed): when at least two manifest entries directory-prefix-match a
\* file and no exact key exists, the file's team is the team of the earliest
\* such entry in manifest order, also when a pattern is listed by several teams.
C2_EarlierEntryWins ==
  Ran =>
    \A i \in FileIndexes :
      LET rel == resolved[i].relativePath
          enclosing == EnclosingEntries(rel)
      IN (Cardinality(enclosing) >= 2 /\ ~ExactRule(rel)) =>
           resolved[i].owningTeam = manifest[MinOf(enclosing)].team

\* the entries from a on that write the path-index key manifest[a].path
Relisting(a) ==
  {b \in EntryIndexes :
     /\ b >= a
     /\ \/ manifest[b].path = manifest[a].path
        \/ manifest[b].path = manifest[a].path \o <<"/">>}

\* C2 (amended): in that situation the team is the team of the earliest
\* prefix-matching entry unless a later entry lists the same pattern, or the
\* pattern followed by a separator; then it is the team of the last such entry.
C2_EarlierEntryUnlessRelisted ==
  Ran =>
    \A i \in FileIndexes :
      LET rel == resolved[i].relativePath
          enclosing == EnclosingEntries(rel)
      IN (Cardinality(enclosing) >= 2 /\ ~ExactRule(rel)) =>
           resolved[i].owningTeam = manifest[MaxOf(Relisting(MinOf(enclosing)))].team

\* C2 witness: two entries with different patterns and different teams enclose
\* a file, and the earlier one's team is resolved.
C2_Witness ==
  /\ Ran
  /\ \E i \in FileIndexes :
       LET rel == resolved[i].relativePath
           enclosing == EnclosingEntries(rel)
       IN /\ ~ExactRule(rel)
          /\ \E a, b \in enclosing :
               /\ a < b /\ a = MinOf(enclosing)
               /\ manifest[a].team # manifest[b].team
               /\ Stripped(manifest[a].path) # Stripped(manifest[b].path)
               /\ resolved[i].owningTeam = manifest[a].team

\* the manifest entries whose pattern is exactly the directory holding the file
DirectoryEntries(rel) ==
  {a \in EntryIndexes :
     manifest[a].path # <<>> /\ Stripped(manifest[a].path) = ParentDirectory(rel)}

\* C7 (as claimed): a file in a directory that a manifest entry names exactly
\* gets that entry's team, whatever the other entries and their order.
C7_DirectoryEntryAlwaysWins ==
  Ran =>
    \A i \in FileIndexes :
      \A a \in DirectoryEntries(resolved[i].relativePath) :
        resolved[i].owningTeam = manifest[a].team

\* C7 (amended): it gets that entry's team provided no entry lists the file's
\* own path, no earlier entry encloses the file, and no later entry of another
\* team lists the same pattern or the pattern followed by a separator.
C7_DirectoryEntryWinsWhenFirst ==
  Ran =>
    \A i \in FileIndexes :
      LET rel == resolved[i].relativePath
      IN \A a \in DirectoryEntries(rel) :
           ( /\ \A b \in EntryIndexes : ~EntryListsFile(manifest[b], rel)
             /\ a = MinOf(EnclosingEntries(rel))
             /\ \A b \in Relisting(a) : manifest[b].team = manifest[a].team )
           => resolved[i].owningTeam = manifest[a].team

\* C7 witness: the directory entry comes first, a later entry of another team
\* encloses the file too, and the directory entry's team is resolved.
C7_Witness ==
  /\ Ran
  /\ \E i \in FileIndexes :
       LET rel == resolved[i].relativePath
       IN \E a \in DirectoryEntries(rel), b \in EnclosingEntries(rel) :
            /\ a = MinOf(EnclosingEntries(rel)) /\ a < b
            /\ \A c \in EntryIndexes : ~EntryListsFile(manifest[c], rel)
            /\ manifest[b].team # manifest[a].team
            /\ manifest[b].path \notin {manifest[a].path, manifest[a].path \o <<"/">>}
            /\ resolved[i].owningTeam = manifest[a].team

\* the manifest entries for the package-init marker of the file's directory,
\* a directory whose path ends in /model_settings
MarkerEntries(rel) ==
  LET dir == ParentDirectory(rel)
      n == Len(dir)
  IN {a \in EntryIndexes :
        /\ n >= 2 /\ dir[n] = "model_settings" /\ dir[n - 1] = "/"
        /\ manifest[a].path = dir \o <<"/", "__init__", ".py">>}

ListedOrEnclosed(rel) ==
  {a \in EntryIndexes : EntryListsFile(manifest[a], rel) \/ EntryEncloses(manifest[a], rel)}

\* C8: a file whose directory is owned only through its package-init marker
\* (no entry lists the file or an enclosing directory) gets the marker's team;
\* and when an entry lists the file or an enclosing directory, the team comes
\* from such an entry, never from the marker.
C8_MarkerFallback ==
  Ran =>
    \A i \in FileIndexes :
      LET rel == resolved[i].relativePath
      IN /\ \A t \in Teams :
              ( /\ MarkerEntries(rel) # {}
                /\ \A a \in MarkerEntries(rel) : manifest[a].team = t
                /\ ListedOrEnclosed(rel) = {} )
              => resolved[i].owningTeam = t
         /\ ListedOrEnclosed(rel) # {} =>
              \E a \in ListedOrEnclosed(rel) : resolved[i].owningTeam = manifest[a].team

\* C8 witness: a file owned through the marker of its directory only, resolved
\* to the marker's team.
C8_Witness ==
  /\ Ran
  /\ \E i \in FileIndexes :
       LET rel == resolved[i].relativePath
       IN /\ MarkerEntries(rel) # {} /\ ListedOrEnclosed(rel) = {}
          /\ resolved[i].owningTeam # "Unknown"
          /\ \A a \in MarkerEntries(rel) : resolved[i].owningTeam = manifest[a].team

\* no rule of the cascade applies to the file
NoRule(rel) == ~ExactRule(rel) /\ ~PrefixRule(rel) /\ ~DirectoryRule(rel)

MappingTeam(name) ==
  (CHOOSE kv \in {result[1].mapping[k] : k \in 1..Len(result[1].mapping)} : kv[1] = name)[2]

\* C10: for a setting name that several files resolve to, the output mapping
\* holds the team of the last such file of the candidate list.
C10_LastFileWins ==
  Ran =>
    /\ ProcessedInOrder
    /\ \A i \in FileIndexes :
         LET name == resolved[i].settingName
             last == MaxOf({j \in FileIndexes : resolved[j].settingName = name})
         IN MappingTeam(name) = resolved[last].owningTeam

\* C10 witness: two files with the same setting name and different teams.
C10_Witness ==
  /\ Ran
  /\ \E i, j \in FileIndexes :
       /\ i < j
       /\ resolved[i].settingName = resolved[j].settingName
       /\ resolved[i].owningTeam # resolved[j].owningTeam
       /\ MappingTeam(resolved[i].settingName) = resolved[j].owningTeam

(***************************************************************************)
(* Vocabulary of the classifier's properties, stated on the two tables,    *)
(* the way the queries settled and the response.                           *)
(***************************************************************************)
Responded == response # <<>>

Succeeded == Responded /\ response[1].success

DataRows == {response[1].data[k] : k \in 1..Len(response[1].data)}

AllNames == {allSettings[1][k].name : k \in 1..Len(allSettings[1])}

UnusedNames == {unusedSettings[1][k].name : k \in 1..Len(unusedSettings[1])}

\* the base rows of a setting name, in all pods
BaseRows(n) == {m \in ms : m.name = n}

\* the override rows that exist for a base row
OverridesOf(m) ==
  {v \in msv : v.model_setting_id = m.id /\ v.pod_prefix = m.pod_prefix}

HasConditionalSchema(n) == \E m \in BaseRows(n) : m.conditional_schema # <<>>

\* C3: every returned row has inUse = (name in the all-settings result and
\* name not in the unused-settings result).
C3_InUseJoin ==
  Succeeded =>
    /\ Len(response[1].data) = Len(allSettings[1])
    /\ \A k \in 1..Len(response[1].data) :
         /\ response[1].data[k].name = allSettings[1][k].name
         /\ response[1].data[k].inUse
              = (response[1].data[k].name \in AllNames
                 /\ response[1].data[k].name \notin UnusedNames)

\* C3 witness: a response with a name in both results (inUse FALSE) and a name
\* in the all-settings result only (inUse TRUE).
C3_Witness ==
  /\ Succeeded
  /\ \E r1, r2 \in DataRows :
       /\ r1.name \in AllNames /\ r1.name \in UnusedNames /\ ~r1.inUse
       /\ r2.name \in AllNames /\ r2.name \notin UnusedNames /\ r2.inUse

\* C4: a name none of whose base rows has a conditional schema is returned by
\* the unused query exactly when it has one distinct base value, every
\* existing override equals the base value of its row, and no existing
\* override has a percent other than 100.
C4_UnusedPredicate ==
  Succeeded =>
    \A n \in SettingNames :
      ~HasConditionalSchema(n) =>
        ( n \in UnusedNames
          <=> /\ Cardinality({m.value : m \in BaseRows(n)}) = 1
              /\ \A m \in BaseRows(n) : \A v \in OverridesOf(m) : v.value = m.value
              /\ \A m \in BaseRows(n) : \A v \in OverridesOf(m) : v.percent = 100 )

\* C4 witness: a name with a base row in each pod, with overrides, is returned
\* as unused while another override row exists for a row of another name.
C4_Witness ==
  /\ Succeeded
  /\ \E n \in UnusedNames :
       /\ Cardinality(BaseRows(n)) = 2
       /\ \E m \in BaseRows(n) : OverridesOf(m) # {}
       /\ \E v \in msv : \A m \in BaseRows(n) : v \notin OverridesOf(m)

\* C5 (as claimed): a name with a conditional schema on any of its base rows is
\* never returned by the unused query, and is reported with inUse = TRUE.
C5_ConditionalSchemaIsUsed ==
  Succeeded =>
    \A n \in SettingNames :
      HasConditionalSchema(n) =>
        /\ n \notin UnusedNames
        /\ \A r \in DataRows : r.name = n => r.inUse

\* C6: when either query fails or times out the response has success FALSE,
\* no rows, count 0 and an error message; rows are only returned when both
\* queries gave rows.
C6_FailureGivesNoRows ==
  Responded =>
    /\ (settled[1] # "rows" \/ settled[2] # "rows") =>
         /\ ~response[1].success
         /\ response[1].status = 500
         /\ response[1].data = <<>>
         /\ response[1].count = 0
         /\ response[1].error # <<>>
         /\ response[1].error[1] \in {ErrorMessage(settled[1]), ErrorMessage(settled[2])}
    /\ response[1].data # <<>> => (settled[1] = "rows" /\ settled[2] = "rows")

\* C6 witness: the all-settings query gave rows for a non-empty table, the
\* unused query timed out, and the response is the failure envelope.
C6_Witness ==
  /\ Responded
  /\ ms # {}
  /\ settled = <<"rows", "timed out">>
  /\ ~response[1].success
  /\ response[1].data = <<>>
  /\ response[1].error = <<"Snowflake query timed out">>

(***************************************************************************)
(* Properties of the resolver's failures and of repeated runs.             *)
(***************************************************************************)
\* C14: a run started while the manifest is missing or unreadable throws to
\* its caller, returns nothing and leaves team-mapping.json as it was.
C14_ManifestFailureKeepsSnapshot ==
  [][(~yamlReadable /\ ~yamlReadable')
       => (thrown' # <<>> /\ result' = <<>> /\ teamMappingJson' = teamMappingJson)]_vars

\* C14 witness: a snapshot was generated, then a run failed on the manifest.
C14_Witness ==
  /\ ~yamlReadable
  /\ thrown = <<"cannot load CODE_OWNERSHIP.yml">>
  /\ teamMappingJson.status = "json"
  /\ teamMappingJson.json[1].mapping # <<>>

\* the last segment of a path without its .py extension
FileStem(path) ==
  LET last == CHOOSE k \in 1..Len(path) :
                path[k] = "/" /\ \A j \in (k + 1)..Len(path) : path[j] # "/"
      n == IF path[Len(path)] = ".py" THEN Len(path) - 1 ELSE Len(path)
  IN [k \in 1..(n - last) |-> path[last + k]]

\* the team the cascade gives to a path, stated on the two indexes
CascadeTeam(rel) ==
  IF ExactRule(rel) THEN IndexTeam(pathToTeam, rel)
  ELSE IF PrefixRule(rel) THEN pathToTeam[MinOf(PrefixKeys(rel))][2]
  ELSE IF DirectoryRule(rel) THEN IndexTeam(directoryToTeam, ParentDirectory(rel))
  ELSE "Unknown"

\* every file is recorded at its place, an unreadable one under its base name
\* without extension, a readable one under its name literal or else its base
\* name, each with the team the cascade gives to its path
RecordedFileByFile ==
  /\ ProcessedInOrder
  /\ \A i \in FileIndexes :
       LET file == settingFiles[i]
       IN /\ ~file.content.readable =>
               resolved[i].settingName = FileStem(file.filePath)
          /\ file.content.readable =>
               resolved[i].settingName
                 = IF file.content.nameLiteral # <<>> THEN file.content.nameLiteral
                   ELSE FileStem(file.filePath)
          /\ resolved[i].owningTeam = CascadeTeam(resolved[i].relativePath)

\* C15: a run on a readable manifest that finds files returns, whichever of
\* the files cannot be read; an unreadable file is recorded under its base
\* name without extension with the team of the cascade, and every other file
\* is recorded with the name and the team that this file alone decides.
C15_ReadFailureIsNotFatal ==
  [][/\ (yamlReadable /\ settingFiles # <<>>
           /\ (thrown' # thrown \/ result' # result \/ now' # now))
        => (thrown' = <<>> /\ result' # <<>>)
     /\ result' # <<>> => RecordedFileByFile']_vars

\* C15 witness: the first file cannot be read and is given a manifest team
\* under its base name; the second file is read and named by its literal.
C15_Witness ==
  /\ Ran
  /\ Len(settingFiles) = 2
  /\ ~settingFiles[1].content.readable
  /\ resolved[1].settingName = <<"foo">>
  /\ resolved[1].owningTeam = "Payments"
  /\ settingFiles[2].content.readable
  /\ resolved[2].settingName = <<"bar">>

Pending == promise = <<>>

TimedOut == promise = <<Rejected("Snowflake query timed out")>>

\* C11: the timer fires only when 60 s have passed without a close or error
\* event; the subprocess is then sent the termination signal and the query
\* rejects with the timeout failure; once settled the query keeps its outcome
\* whatever event follows; and a timer that a close or error event cleared
\* stays cleared.
C11_TimeoutSettlesOnce ==
  [][/\ (timer # "fired" /\ timer' = "fired")
          => /\ elapsed >= QUERY_TIMEOUT_MS
             /\ child.state = "running" /\ ~child.errored
             /\ Pending
             /\ child'.signalled
             /\ TimedOut'
     /\ ~Pending => promise' = promise
     /\ ((child'.state = "closed" \/ child'.errored) /\ timer # "fired")
          => timer' = "cleared"
     /\ timer = "cleared" => timer' = "cleared"]_vars

\* C11 witness: the query timed out, then the killed subprocess closed with
\* exit code 0 and a well-formed array, and the outcome is still the timeout.
C11_Witness ==
  /\ timer = "fired"
  /\ child.signalled
  /\ child.state = "closed" /\ child.code = 0
  /\ CloseOutcome(child.code, stdout).state = "fulfilled"
  /\ settleCalls = 2
  /\ TimedOut

\* the lines that begin, and that end, the array text that the output
\* delimits: the end is the first line ending with "]" at or after a line
\* starting with "[", the begin is the last line starting with "[" up to it
StartLines == {i \in 1..Len(stdout) : Trim(stdout[i]) # <<>> /\ Head(Trim(stdout[i])) = "["}

EndLines ==
  {i \in 1..Len(stdout) :
     /\ Trim(stdout[i]) # <<>> /\ Trim(stdout[i])[Len(Trim(stdout[i]))] = "]"
     /\ \E j \in StartLines : j <= i}

Delimited ==
  LET e == MinOf(EndLines)
      b == MaxOf({j \in StartLines : j <= e})
  IN JoinLines(stdout, b, e)

\* C20: a query whose CLI exits with code 0 without a parsable JSON array in
\* its output (no line starting with "[" followed by a line ending with "]",
\* or a delimited text that does not parse) is rejected, like one whose CLI
\* exits with another code; a query is fulfilled only on exit code 0 with a
\* delimited text that parses, and then with one row per element of it.
C20_MalformedOutputRejects ==
  (child.state = "closed" /\ ~Pending) =>
    /\ (child.code = 0 /\ (EndLines = {} \/ ~JsonParses(Delimited)))
         => promise[1].state = "rejected"
    /\ child.code # 0 => promise[1].state = "rejected"
    /\ promise[1].state = "fulfilled"
         => /\ child.code = 0
            /\ EndLines # {}
            /\ JsonParses(Delimited)
            /\ Len(promise[1].rows)
                 = Cardinality({k \in 1..Len(JsonTokens(Delimited)) :
                                  /\ JsonTokens(Delimited)[k] \in {"{foo}", "["}
                                  /\ Depth(JsonTokens(Delimited), k - 1) = 1})

\* C20 witness: exit code 0, output with a line starting with "[" and a later
\* line ending with "]" around text that is not JSON; the close handler
\* rejected the query.
C20_Witness ==
  /\ child.state = "closed" /\ child.code = 0
  /\ timer = "cleared" /\ ~child.errored
  /\ Len(stdout) = 3
  /\ EndLines # {} /\ MinOf(EndLines) = 3
  /\ ~JsonParses(Delimited)
  /\ promise = <<Rejected("Failed to parse Snowflake JSON output")>>

(***************************************************************************)
(* Properties of the server process.                                       *)
(***************************************************************************)
\* the mappings the server has held: the empty one it starts with and the
\* ones it has read from the snapshot file
Snapshots == loads \cup {<<>>}

\* a model-settings request is answered in this step (with rows if it succeeded)
Answers == answered' # answered /\ response'[1].route \in Routes

AnswersWithRows == Answers /\ response'[1].success

\* a team-mapping refresh request is handled in this step
Refreshes == answered' # answered /\ response'[1].route = REFRESH

\* C12: whatever the interleaving of model-settings requests with reloads,
\* the mapping the server holds is always a whole snapshot (the empty one or
\* one read from the file), and all rows of a response take their team from
\* one and the same snapshot.
C12_OneSnapshotPerResponse ==
  [][/\ teamMapping' \in Snapshots'
     /\ AnswersWithRows =>
          \E snapshot \in Snapshots :
            \A k \in 1..Len(response'[1].data) :
              response'[1].data[k].team = TeamOf(snapshot, response'[1].data[k].name)]_vars

\* C12 witness: the first request waited for its queries while a refresh
\* replaced the mapping loaded at startup; its rows carry the teams of the
\* new snapshot.
C12_Witness ==
  /\ nextId = 2 /\ answered = 1 /\ inflight = {}
  /\ Cardinality(loads) = 2
  /\ response[1].route \in Routes /\ response[1].success
  /\ Len(response[1].data) = 2
  /\ response[1].data[1].team = "Clarity"
  /\ response[1].data[2].team = "Unknown"

\* the mapping field of the document in the snapshot file (a document without
\* that field counts as holding the empty mapping)
FileMapping ==
  IF "mapping" \in DOMAIN teamMappingJson.json[1] THEN teamMappingJson.json[1].mapping
  ELSE <<>>

\* C13: a refresh request replaces the in-memory mapping by the mapping field
\* of the snapshot file when the file holds a JSON document, and answers
\* success; when the file is absent or does not parse, the mapping stays as
\* it was and the answer is HTTP 500 with success FALSE.
C13_RefreshReplacesOrKeeps ==
  [][Refreshes =>
       /\ teamMappingJson.status = "json" =>
            /\ teamMapping' = FileMapping
            /\ response'[1].success /\ response'[1].status = 200
       /\ teamMappingJson.status # "json" =>
            /\ teamMapping' = teamMapping
            /\ ~response'[1].success /\ response'[1].status = 500]_vars

\* C13 witness: a refresh failed on a file that does not parse and the
\* mapping loaded before is still in memory.
C13_Witness ==
  /\ response # <<>> /\ response[1].route = REFRESH
  /\ ~response[1].success /\ response[1].status = 500
  /\ teamMappingJson = GarbageFile
  /\ teamMapping = << << <<"foo">>, "Payments" >> >>

\* C17: when both queries gave rows the response succeeds with exactly one
\* row per row of the all-settings result, in the same order, and count is
\* that number; names that only the unused-settings result holds add no row
\* and no error.
C17_OneRowPerAllSettingsRow ==
  (response # <<>> /\ response[1].route \in Routes /\ settled = <<"rows", "rows">>) =>
    /\ response[1].success /\ response[1].status = 200
    /\ Len(response[1].data) = Len(allSettings[1])
    /\ \A k \in 1..Len(allSettings[1]) : response[1].data[k].name = allSettings[1][k].name
    /\ response[1].count = Len(allSettings[1])

\* C17 witness: the unused-settings result holds a name that the all-settings
\* result does not; the response has the one row of the all-settings result.
C17_Witness ==
  /\ response # <<>> /\ response[1].route \in Routes /\ response[1].success
  /\ allSettings = << <<[name |-> <<"foo">>]>> >>
  /\ unusedSettings = << <<[name |-> <<"bar">>]>> >>
  /\ Len(response[1].data) = 1
  /\ response[1].data[1].name = <<"foo">> /\ response[1].data[1].inUse
  /\ response[1].count = 1

\* the entry of a mapping for a name
HasEntry(mapping, name) == \E k \in 1..Len(mapping) : mapping[k][1] = name

EntryTeam(mapping, name) ==
  (CHOOSE kv \in {mapping[k] : k \in 1..Len(mapping)} : kv[1] = name)[2]

\* C18 (as claimed): each row's team is the team the currently loaded mapping
\* holds for the row's name, and is "Unknown" exactly when the mapping has no
\* entry for that name.
C18_UnknownIffNoEntry ==
  [][AnswersWithRows =>
       \A k \in 1..Len(response'[1].data) :
         LET row == response'[1].data[k]
         IN /\ HasEntry(teamMapping, row.name) => row.team = EntryTeam(teamMapping, row.name)
            /\ row.team = "Unknown" <=> ~HasEntry(teamMapping, row.name)]_vars

\* C18 (amended): each row's team is the team the currently loaded mapping
\* holds for the row's name when it holds a non-empty one; it is "Unknown"
\* when the entry is empty (or is "Unknown" itself, as the resolver writes for
\* a file without owner), and when there is no entry and the name is not a
\* property that every object inherits; for such a name without entry the
\* team is the inherited property, not "Unknown".
C18_TeamOfLoadedMapping ==
  [][AnswersWithRows =>
       \A k \in 1..Len(response'[1].data) :
         LET row == response'[1].data[k]
         IN /\ (HasEntry(teamMapping, row.name) /\ EntryTeam(teamMapping, row.name) # "")
                 => row.team = EntryTeam(teamMapping, row.name)
            /\ (HasEntry(teamMapping, row.name) /\ EntryTeam(teamMapping, row.name) = "")
                 => row.team = "Unknown"
            /\ (~HasEntry(teamMapping, row.name) /\ row.name \notin ObjectPrototypeKeys)
                 => row.team = "Unknown"
            /\ (~HasEntry(teamMapping, row.name) /\ row.name \in ObjectPrototypeKeys)
                 => row.team = InheritedProperty(row.name)]_vars

\* C18 witness: a response built from a loaded mapping that gives one name to
\* a team and another name to "Unknown".
C18_Witness ==
  /\ response # <<>> /\ response[1].route \in Routes /\ response[1].success
  /\ teamMapping = << << <<"bar">>, "Clarity" >>, << <<"foo">>, "Unknown" >> >>
  /\ Len(response[1].data) = 3
  /\ response[1].data[1] = [name |-> <<"bar">>, inUse |-> TRUE, team |-> "Clarity"]
  /\ response[1].data[3].name = <<"foo">> /\ response[1].data[3].team = "Unknown"

\* C19 (as claimed): while no load of the snapshot file has succeeded, at
\* startup or later, the server serves with the empty mapping and every row
\* it returns has team "Unknown".
C19_UnknownUntilReload ==
  (serving /\ loads = {}) =>
    /\ teamMapping = <<>>
    /\ (response # <<>> /\ response[1].route \in Routes /\ response[1].success) =>
         \A k \in 1..Len(response[1].data) : response[1].data[k].team = "Unknown"

(***************************************************************************)
(* The envelope of the HTTP responses.                                     *)
(***************************************************************************)
\* The fields of the JSON body of a response.
BodyFields(resp) ==
  IF "body" \in DOMAIN resp THEN DOMAIN resp.body
  ELSE IF resp.route \in Routes /\ resp.error = <<>>
       THEN DOMAIN resp \ {"route", "status", "error"}
       ELSE DOMAIN resp \ {"route", "status"}

Failed(resp) == resp.status # 200

\* C21: every endpoint (all settings, data refresh, team-mapping refresh,
\* per-setting details, health), on success and on failure, responds with the
\* fields success, data and count, plus error only on failure.
C21_UniformEnvelope ==
  response # <<>> =>
    BodyFields(response[1]) =
      IF Failed(response[1]) THEN {"success", "data", "count", "error"}
      ELSE {"success", "data", "count"}

(***************************************************************************)
(* The column keys of the warehouse rows.                                  *)
(***************************************************************************)
\* the row with its keys in lower case
LowerKeys(row) == [k \in 1..Len(row) |-> <<LowerCase(row[k][1]), row[k][2]>>]

\* C22: the name, description and created_date columns are read
\* independently of the letter case of the column keys: rows that differ
\* only in the case of their keys yield the same result row.
C22_KeyCaseInsensitive ==
  results # <<>> =>
    \A i, j \in 1..Len(jsonData) :
      LowerKeys(jsonData[i]) = LowerKeys(jsonData[j]) => results[1][i] = results[1][j]

(***************************************************************************)
(* The directory index.                                                    *)
(***************************************************************************)
\* the directory entries the path index calls for: d -> t for each key
\* d + "/__init__.py" with d ending in "/model_settings"
MarkerDirectories ==
  { <<SubSeq(pathToTeam[j][1], 1, Len(pathToTeam[j][1]) - Len(INIT_PY)), pathToTeam[j][2]>> :
      j \in {i \in 1..Len(pathToTeam) : EndsWith(pathToTeam[i][1], MARKER)} }

\* C23: the directory index holds d -> t exactly for each path-index key
\* d + "/__init__.py" where d ends in "/model_settings" and the key maps to t;
\* keys that contain "/model_settings/__init__.py" without ending in it
\* contribute no entry.
C23_DirectoryIndexFromMarkers ==
  {directoryToTeam[j] : j \in 1..Len(directoryToTeam)} = MarkerDirectories

(***************************************************************************)
(* The counts of the summary.                                              *)
(***************************************************************************)
\* the sum of the per-team counts
RECURSIVE SumOfCounts(_)
SumOfCounts(teams) ==
  IF teams = <<>> THEN 0 ELSE Plus(Head(teams)[2], SumOfCounts(Tail(teams)))

\* C24: each processed file is counted exactly once: matched_count +
\* unmatched_count is the number of candidate files, the per-team counts sum
\* to the number of candidate files, and total_settings is the number of
\* distinct setting names in the mapping, at most the number of files.
C24_EachFileCountedOnce ==
  Ran =>
    LET summary == result[1].summary
    IN /\ summary.matched_count + summary.unmatched_count = Len(settingFiles)
       /\ SumOfCounts(summary.teams) = Len(settingFiles)
       /\ summary.total_settings = Cardinality(MapKeys(result[1].mapping))
       /\ summary.total_settings <= Len(settingFiles)

(***************************************************************************)
(* Output with text before the JSON array.                                 *)
(***************************************************************************)
\* the close handler settled the promise of a CLI that exited with code 0
ClosedWithZero ==
  /\ child.state = "closed" /\ child.code = 0
  /\ ~child.errored /\ timer = "cleared"

\* the output from line s on
OutputFrom(s) == JoinLines(stdout, s, Len(stdout))

\* the output is lines that are not JSON followed, from line s on, by one
\* well-formed JSON array
ArrayAfterOtherLines(s) ==
  /\ JsonParses(OutputFrom(s))
  /\ \A i \in 1..(s - 1) : ~JsonParses(stdout[i])

\* C25: when the CLI exits with code 0 and its output is any number of
\* non-JSON lines followed by one well-formed JSON array, the query resolves
\* with exactly the rows of that array, whatever the preceding lines are.
C25_ArrayAfterWarningsResolves ==
  ClosedWithZero =>
    \A s \in 1..Len(stdout) :
      ArrayAfterOtherLines(s)
        => promise = <<Fulfilled(ConvertRows(JsonValue(OutputFrom(s))))>>

(***************************************************************************)
(* Properties of the browser.                                              *)
(***************************************************************************)
\* C26: for any interleaving of getAllModelSettings, refreshModelSettings
\* and refreshTeamMapping calls, once a refresh call has resolved the
\* MODEL_SETTINGS cache entry never holds a response whose request was issued
\* before that refresh started, and no such response replaces what the page
\* displays: an older in-flight fetch cannot overwrite the refreshed data.
C26_NoStaleOverwrite ==
  [][ /\ cache' # <<>> => cache'[1].data >= refreshed'
      /\ page'.modelSettings # page.modelSettings
           => page'.modelSettings[1] >= refreshed' ]_vars

\* the refresh request p settles in this step, successfully or not
RefreshRequestSettles(p) ==
  p \in pending /\ p \notin pending' /\ Endpoint(p) = REFRESH_DATA

\* C27: if the request of refreshModelSettings fails, the MODEL_SETTINGS
\* cache entry is absent afterwards, so that the next getAllModelSettings(true)
\* issues a request instead of returning pre-refresh data; if the request
\* succeeds the entry holds exactly the refreshed response data.
C27_FailedRefreshLeavesNoEntry ==
  [][ \A p \in pending :
        RefreshRequestSettles(p) =>
          IF refreshed' = p.ticket
          THEN cache' # <<>> /\ cache'[1].data = p.ticket
          ELSE cache' = <<>> ]_vars

\* the 'Cached data' badge of the overview
CachedBadge == ~page.loading /\ page.modelSettings # <<>> /\ CacheHas(cache)

\* C28: at every moment cacheService.has(key) is true if and only if
\* cacheService.get(key) at that moment would return the stored value: an
\* entry older than the TTL is reported by neither, so the 'Cached data'
\* badge is shown only while cached data would be served.
C28_HasIffGetReturns ==
  /\ CacheHas(cache) <=> (CacheGet(cache, dateNow).value # <<>>)
  /\ CachedBadge => CacheGet(cache, dateNow).value # <<>>

\* an operation of the page has a request in flight
InFlight(caller) == \E p \in pending : p.caller = caller

\* C29: Refresh Data and Refresh Teams are never in flight at the same time,
\* and the in-progress flag of each (refreshing, refreshingTeamMapping)
\* returns to false once its requests settle, whether they succeed or fail.
C29_RefreshesExclusiveAndEnd ==
  /\ [](~(InFlight("handleRefresh") /\ InFlight("handleRefreshTeamMapping")))
  /\ [](~(page.refreshing /\ page.refreshingTeamMapping))
  /\ [](page.refreshing <=> InFlight("handleRefresh"))
  /\ [](page.refreshingTeamMapping <=> InFlight("handleRefreshTeamMapping"))
  /\ (page.refreshing ~> ~page.refreshing)
  /\ (page.refreshingTeamMapping ~> ~page.refreshingTeamMapping)

\* C29 witness: both operations have run, one after the other, the later one
\* failed, and both flags are back to false with no request left.
C29_Witness ==
  /\ \E i, j \in 1..Len(requests) : requests[i] = REFRESH_DATA /\ requests[j] = REFRESH_TEAMS
  /\ pending = {}
  /\ page.error = RequestError
  /\ ~page.refreshing /\ ~page.refreshingTeamMapping

\* a request for all model settings has been issued
AllRequested == \E i \in 1..Len(requests) : requests[i] = ALL

\* loadProviders has been called
ProvidersLoadIssued == page.providerError # ""

\* C30: at start-up the model-settings and provider loads are issued only
\* after the status check has completed and only if the check did not report
\* the CLI as unavailable; when it reports unavailable, no request for all
\* model settings is made.
C30_LoadsOnlyWhenAvailable ==
  /\ (AllRequested \/ ProvidersLoadIssued) => ~page.checkingSnowflake
  /\ page.snowflakeAvailable = "false" => ~AllRequested /\ ~ProvidersLoadIssued

====
